---- MODULE Spec2Model ----
(***************************************************************************)
(* A model of renpy/display/text.py: the text tokenizer, the text-tag     *)
(* validator, the tag/style stack machine and line breaker of Text.layout *)
(* and the slow-text (reveal) state of the Text displayable.              *)
(*                                                                         *)
(* Strings are sequences of one-character strings, so that indexing,      *)
(* slicing and prefix tests are done the way the Python code does them.   *)
(***************************************************************************)
EXTENDS Integers, Sequences, FiniteSets, TLC

VARIABLES
    self,   \* the Text object: a record of its fields
    env,    \* process-wide state the Text reads (renpy.style, renpy.display.focus)
    hist,   \* history of calls: the last call, what it returned, callback count
    arg,    \* the argument of the pure function under check
    res     \* its result ("pending" before the call)

vars == <<self, env, hist, arg, res>>

\* Python's None in a field that otherwise holds a number (a time, a pause
\* length, a pause index, a focus argument, a speed).
None == -1

\* ------------------------------------------------------------------------
\* Bounds of the model.
\* ------------------------------------------------------------------------
MaxPieces == 4

MaxLayoutPieces == 4

MaxTriples == 4

MaxTime == 2

MaxChars == 5

MaxRetry == 6

\* ------------------------------------------------------------------------
\* Sequence helpers.
\* ------------------------------------------------------------------------
RECURSIVE Concat(_)
Concat(ss) == IF ss = <<>> THEN <<>> ELSE Head(ss) \o Concat(Tail(ss))

Reverse(q) == [k \in 1..Len(q) |-> q[Len(q) + 1 - k]]

RemoveAt(q, k) == SubSeq(q, 1, k - 1) \o SubSeq(q, k + 1, Len(q))

InsertAt(q, k, x) == SubSeq(q, 1, k) \o <<x>> \o SubSeq(q, k + 1, Len(q))

StartsWith(t, p) == Len(t) >= Len(p) /\ SubSeq(t, 1, Len(p)) = p

SeqsUpTo(S, n) == UNION {[1..m -> S] : m \in 0..n}

\* str.find(c): the 1-based index of the first c in t, 0 when there is none
\* (Python's -1).
Find(t, c) ==
    IF \E k \in 1..Len(t) : t[k] = c
    THEN CHOOSE k \in 1..Len(t) : t[k] = c /\ \A j \in 1..(k - 1) : t[j] # c
    ELSE 0

\* ------------------------------------------------------------------------
\* text_tags: tag name -> does it require a closing tag.
\* ------------------------------------------------------------------------
OpenTagNames ==
    {<<"b">>, <<"i">>, <<"u">>, <<"a">>, <<"p", "l", "a", "i", "n">>,
     <<"f", "o", "n", "t">>, <<"c", "o", "l", "o", "r">>,
     <<"s", "i", "z", "e">>, <<"s">>, <<"s", "t">>, <<>>}

SelfClosingTagNames ==
    {<<"i", "m", "a", "g", "e">>, <<"p">>, <<"w">>, <<"f", "a", "s", "t">>,
     <<"n", "w">>}

text_tags == [n \in OpenTagNames \cup SelfClosingTagNames |-> n \in OpenTagNames]

\* ------------------------------------------------------------------------
\* western_text_regexp and text_tokenizer (style None or western).
\* ------------------------------------------------------------------------
SpaceChars == {" ", "z"}   \* "z" stands for U+200B, the zero-width space

\* A tag alternative that lets an opening brace into the tag: \{([^}]+)\}.
TagEndLoose(s, p) ==
    LET closes == {q \in (p + 2)..Len(s) : s[q] = "}"}
    IN  IF closes = {} THEN 0 ELSE CHOOSE x \in closes : \A y \in closes : x <= y

\* \{(?P<tag>[^{}]+)\}  tried at position p (s[p] = "{"): the index of the
\* closing brace, 0 when the alternative does not match there.
TagEnd(s, p) ==
    LET braces == {q \in (p + 1)..Len(s) : s[q] \in {"{", "}"}}
    IN  IF braces = {} THEN 0
        ELSE LET q == CHOOSE x \in braces : \A y \in braces : x <= y
             IN  IF s[q] = "}" /\ q > p + 1 THEN q ELSE 0

\* (?P<word>[^ \n\{]+) tried at position p: the index of the last character
\* of the maximal run.
WordEnd(s, p) ==
    LET stops == {q \in p..Len(s) : s[q] \in {" ", "\n", "{"}}
    IN  IF stops = {} THEN Len(s)
        ELSE (CHOOSE x \in stops : \A y \in stops : x <= y) - 1

Token(kind, text) == [kind |-> kind, text |-> text]

\* re.finditer tries the alternatives in the order they are written, at each
\* position from left to right; a position at which none matches is skipped.
RECURSIVE TokensFrom(_, _)
TokensFrom(s, p) ==
    IF p > Len(s) THEN <<>>
    ELSE IF s[p] \in SpaceChars
        THEN <<Token("space", <<s[p]>>)>> \o TokensFrom(s, p + 1)
    ELSE IF s[p] = "{" /\ TagEnd(s, p) # 0
        THEN <<Token("tag", SubSeq(s, p + 1, TagEnd(s, p) - 1))>>
                 \o TokensFrom(s, TagEnd(s, p) + 1)
    ELSE IF s[p] = "{" /\ p < Len(s) /\ s[p + 1] = "{"
        THEN <<Token("word", <<"{">>)>> \o TokensFrom(s, p + 2)
    ELSE IF s[p] = "\n"
        THEN <<Token("newline", <<"\n">>)>> \o TokensFrom(s, p + 1)
    ELSE IF s[p] # "{"
        THEN <<Token("word", SubSeq(s, p, WordEnd(s, p)))>>
                 \o TokensFrom(s, WordEnd(s, p) + 1)
    ELSE TokensFrom(s, p + 1)

text_tokenizer(s) == TokensFrom(s, 1)

\* The matches re.finditer hands to the loop of text_tokenizer: the group
\* that matched and the span m.start() + 1 .. m.end() of the match.
Match(kind, from, to) == [kind |-> kind, from |-> from, to |-> to]

RECURSIVE MatchesFrom(_, _)
MatchesFrom(s, p) ==
    IF p > Len(s) THEN <<>>
    ELSE IF s[p] \in SpaceChars
        THEN <<Match("space", p, p)>> \o MatchesFrom(s, p + 1)
    ELSE IF s[p] = "{" /\ TagEnd(s, p) # 0
        THEN <<Match("tag", p, TagEnd(s, p))>> \o MatchesFrom(s, TagEnd(s, p) + 1)
    ELSE IF s[p] = "{" /\ p < Len(s) /\ s[p + 1] = "{"
        THEN <<Match("untag", p, p + 1)>> \o MatchesFrom(s, p + 2)
    ELSE IF s[p] = "\n"
        THEN <<Match("newline", p, p)>> \o MatchesFrom(s, p + 1)
    ELSE IF s[p] # "{"
        THEN <<Match("word", p, WordEnd(s, p))>> \o MatchesFrom(s, WordEnd(s, p) + 1)
    ELSE MatchesFrom(s, p + 1)

\* ------------------------------------------------------------------------
\* check_text_tags.
\* ------------------------------------------------------------------------
\* The return value: NoDiag stands for Python's None, every other value for
\* an error message, kept as its kind and the tag names it is formatted with.
Diag(kind, tags) == [diag |-> kind, tags |-> tags]

NoDiag == Diag("none", <<>>)

StripArgsNever(text) == text

\* Strip off arguments for tags.
StripArgs(text) ==
    IF Find(text, "=") # 0 THEN SubSeq(text, 1, Find(text, "=") - 1) ELSE text

\* The message for tags left open: ", ".join(... for i in tag_stack).
LeftOpenDiagReversed(tag_stack) == Diag("left_open", Reverse(tag_stack))

LeftOpenDiag(tag_stack) == Diag("left_open", tag_stack)

RECURSIVE CheckLoop(_, _, _)
CheckLoop(tokens, k, tag_stack) ==
    IF k > Len(tokens)
    THEN IF tag_stack # <<>> THEN LeftOpenDiag(tag_stack) ELSE NoDiag
    ELSE IF tokens[k].kind # "tag" THEN CheckLoop(tokens, k + 1, tag_stack)
    ELSE LET text == StripArgs(tokens[k].text)
         IN  IF text # <<>> /\ text[1] = "/"
             THEN IF tag_stack = <<>>
                      THEN Diag("close_no_open", <<text>>)
                  ELSE IF tag_stack[Len(tag_stack)] # Tail(text)
                      THEN Diag("close_mismatch", <<text, tag_stack[Len(tag_stack)]>>)
                  ELSE CheckLoop(tokens, k + 1, SubSeq(tag_stack, 1, Len(tag_stack) - 1))
             ELSE IF text \notin DOMAIN text_tags
                      THEN Diag("unknown", <<text>>)
                  ELSE IF text_tags[text]
                      THEN CheckLoop(tokens, k + 1, Append(tag_stack, text))
                  ELSE CheckLoop(tokens, k + 1, tag_stack)

check_text_tags(s) == CheckLoop(text_tokenizer(s), 1, <<>>)

\* ------------------------------------------------------------------------
\* color(s): a hex code to an (r, g, b, a) tuple.
\* ------------------------------------------------------------------------
HexDigits ==
    <<"0", "1", "2", "3", "4", "5", "6", "7", "8", "9",
      "a", "b", "c", "d", "e", "f">>

UpperHex == <<"A", "B", "C", "D", "E", "F">>

IsHex(c) ==
    \/ \E k \in 1..Len(HexDigits) : HexDigits[k] = c
    \/ \E k \in 1..Len(UpperHex) : UpperHex[k] = c

\* int(c, 16) for one hex digit.
HexVal(c) ==
    IF \E k \in 1..Len(UpperHex) : UpperHex[k] = c
    THEN 9 + (CHOOSE k \in 1..Len(UpperHex) : UpperHex[k] = c)
    ELSE (CHOOSE k \in 1..Len(HexDigits) : HexDigits[k] = c) - 1

\* Two digits read with the low digit first.
Hex2LowFirst(a, b) == 16 * HexVal(b) + HexVal(a)

Hex2(a, b) == 16 * HexVal(a) + HexVal(b)

ColorError == <<"error">>

\* s[0] of the empty string.
ColorIndexError == <<"index_error">>

color(s0) ==
    LET s == IF s0 # <<>> /\ s0[1] = "#" THEN Tail(s0) ELSE s0
    IN  IF s0 = <<>> THEN ColorIndexError
        ELSE IF Len(s) = 6
            THEN <<Hex2(s[1], s[2]), Hex2(s[3], s[4]), Hex2(s[5], s[6]), 255>>
        ELSE IF Len(s) = 8
            THEN <<Hex2(s[1], s[2]), Hex2(s[3], s[4]), Hex2(s[5], s[6]),
                   Hex2(s[7], s[8])>>
        ELSE IF Len(s) = 3
            THEN <<HexVal(s[1]) * 17, HexVal(s[2]) * 17, HexVal(s[3]) * 17, 255>>
        ELSE IF Len(s) = 4
            THEN <<HexVal(s[1]) * 17, HexVal(s[2]) * 17, HexVal(s[3]) * 17,
                   HexVal(s[4]) * 17>>
        ELSE ColorError

\* ------------------------------------------------------------------------
\* TextStyle: the formatting attributes of a run of text.  Python compares
\* styles by identity (ts is not curts), so every TextStyle object created
\* during a layout pass has its own index in the pass's table of styles, and
\* a triple refers to its style by that index.
\* ------------------------------------------------------------------------
TextStyle(font, size, bold, italic, underline, strikethrough, col, black, link) ==
    [kind |-> "text", font |-> font, size |-> size, bold |-> bold,
     italic |-> italic, underline |-> underline,
     strikethrough |-> strikethrough, color |-> col, black_color |-> black,
     hyperlink |-> link]

NoColor == <<>>

NoLink == -1

\* The style of the Text widget (self.style): the properties text.py reads.
DefaultFont == <<"d">>

WidgetStyleProps ==
    [font |-> DefaultFont, size |-> 1, bold |-> FALSE, italic |-> FALSE,
     underline |-> FALSE, strikethrough |-> FALSE,
     color |-> <<255, 255, 255, 255>>, black_color |-> <<0, 0, 0, 255>>,
     first_indent |-> 0, rest_indent |-> 0, justify |-> FALSE,
     layout |-> "greedy", min_width |-> 0, line_spacing |-> 0,
     slow_cps |-> 1, slow_cps_multiplier |-> 1, slow_abortable |-> TRUE]

\* renpy.store.style: the named styles a {=name} tag can refer to.
StoreStyles ==
    [n \in {<<"s">>} |->
        [font |-> <<"e">>, size |-> 2, bold |-> TRUE, italic |-> FALSE,
         underline |-> FALSE, strikethrough |-> FALSE,
         color |-> <<255, 0, 0, 255>>, black_color |-> NoColor]]

\* renpy.config.hyperlink_styler(target), with its prefix set.
HyperlinkStyle(prefix) ==
    [font |-> DefaultFont, size |-> 1, bold |-> FALSE, italic |-> FALSE,
     underline |-> TRUE, strikethrough |-> FALSE,
     color |-> IF prefix = "idle_" THEN <<0, 0, 255, 255>>
               ELSE IF prefix = "hover_" THEN <<0, 255, 255, 255>>
               ELSE <<255, 255, 0, 255>>,
     black_color |-> NoColor]

\* int(m.group(2)) for the (\d+) of a size tag: the decimal value of a run of
\* digits, 0 for the empty run.
IsDigit(c) == c \in {"0", "1", "2", "3", "4", "5", "6", "7", "8", "9"}

RECURSIVE DecVal(_)
DecVal(t) ==
    IF t = <<>> THEN 0
    ELSE 10 * DecVal(SubSeq(t, 1, Len(t) - 1)) + HexVal(t[Len(t)])

\* The longest prefix of t made of characters satisfying the class.
RECURSIVE DigitPrefix(_)
DigitPrefix(t) ==
    IF t # <<>> /\ IsDigit(t[1]) THEN <<t[1]>> \o DigitPrefix(Tail(t)) ELSE <<>>

RECURSIVE HexPrefix(_)
HexPrefix(t) ==
    IF t # <<>> /\ IsHex(t[1]) THEN <<t[1]>> \o HexPrefix(Tail(t)) ELSE <<>>

\* ------------------------------------------------------------------------
\* The font backend, as text.py uses it: f.size(text)[0] is the width of a
\* text in the font of a style.  Every character is as wide as the font
\* size; the height of a font (ascent - descent) is its size.
\* ------------------------------------------------------------------------
FontWidth(ts, text) == Len(text) * ts.size

FontHeight(ts) == ts.size

\* A triple of the layout: (type, style, text); ts is the index of the style
\* in the table of the styles of the pass.
Triple(type, ts, i) == [type |-> type, ts |-> ts, i |-> i]

\* ts.get_width(text) for a TextStyle (the width cache never holds a text,
\* see TextStyle.get_width), a WidgetStyle or a SpacerStyle.
get_width(styles, ts, text) ==
    IF styles[ts].kind = "text" THEN FontWidth(styles[ts], text)
    ELSE IF styles[ts].kind = "widget" THEN styles[ts].width
    ELSE 0

\* ------------------------------------------------------------------------
\* layout_width (renpy.config.rtl off).  curts = 0 stands for None.
\* ------------------------------------------------------------------------
RECURSIVE LayoutWidthLoop(_, _, _, _, _, _, _)
LayoutWidthLoop(styles, triples, k, justify, rv, curts, cur) ==
    IF k > Len(triples)
    THEN IF curts # 0 THEN rv + get_width(styles, curts, cur) ELSE rv
    ELSE LET t == triples[k]
         IN  IF t.ts # curts
             THEN LayoutWidthLoop(styles, triples, k + 1, justify,
                      IF cur # <<>> THEN rv + get_width(styles, curts, cur) ELSE rv,
                      t.ts, t.i)
             ELSE IF justify /\ t.type = "space"
             THEN LayoutWidthLoop(styles, triples, k + 1, justify,
                      rv + get_width(styles, curts, cur \o t.i), curts, <<>>)
             ELSE LayoutWidthLoop(styles, triples, k + 1, justify, rv, curts,
                      cur \o t.i)

layout_width(styles, triples, justify) ==
    LayoutWidthLoop(styles, triples, 1, justify, 0, 0, <<>>)

\* ------------------------------------------------------------------------
\* greedy_text_layout.
\* ------------------------------------------------------------------------
\* "Remove trailing whitespace, except on the last line": one l.pop().
\* A clean-up that pops every trailing space of a line but the last line.
RECURSIVE TrimSpaces(_)
TrimSpaces(line) ==
    IF line # <<>> /\ line[Len(line)].type = "space"
    THEN TrimSpaces(SubSeq(line, 1, Len(line) - 1))
    ELSE line

StripAllTrailing(lines) ==
    [k \in 1..Len(lines) |->
        IF k < Len(lines) THEN TrimSpaces(lines[k]) ELSE lines[k]]

\* A clean-up that pops the first triple of a line instead of the last.
StripLeading(lines) ==
    [k \in 1..Len(lines) |->
        IF k < Len(lines) /\ lines[k] # <<>>
               /\ lines[k][Len(lines[k])].type = "space"
        THEN Tail(lines[k])
        ELSE lines[k]]

StripTrailing(lines) ==
    [k \in 1..Len(lines) |->
        IF k < Len(lines) /\ lines[k] # <<>>
               /\ lines[k][Len(lines[k])].type = "space"
        THEN SubSeq(lines[k], 1, Len(lines[k]) - 1)
        ELSE lines[k]]

\* The overflow test of a non-space triple.
Overflows(styles, line, triple, justify, target) ==
    layout_width(styles, Append(line, triple), justify) > target

RECURSIVE GreedyLoop(_, _, _, _, _, _)
GreedyLoop(styles, triples, k, width, style, g) ==
    IF k > Len(triples)
    THEN [lines |-> StripTrailing(Append(g.lines, g.line)),
          lines_last |-> Append(g.lines_last, TRUE)]
    ELSE LET triple == triples[k]
         IN  IF triple.type = "newline"
             THEN GreedyLoop(styles, triples, k + 1, width, style,
                      [lines |-> Append(g.lines, g.line),
                       lines_last |-> Append(g.lines_last, TRUE),
                       line |-> <<>>,
                       target |-> width - style.rest_indent,
                       after_newline |-> TRUE])
             ELSE IF triple.type = "space"
             THEN IF g.line = <<>> /\ ~g.after_newline
                  THEN GreedyLoop(styles, triples, k + 1, width, style, g)
                  ELSE GreedyLoop(styles, triples, k + 1, width, style,
                           [g EXCEPT !.line = Append(g.line, triple)])
             ELSE IF Overflows(styles, g.line, triple, style.justify, g.target)
             THEN GreedyLoop(styles, triples, k + 1, width, style,
                      [lines |-> Append(g.lines, g.line),
                       lines_last |-> Append(g.lines_last, FALSE),
                       line |-> <<triple>>,
                       target |-> width - style.rest_indent,
                       after_newline |-> FALSE])
             ELSE GreedyLoop(styles, triples, k + 1, width, style,
                      [g EXCEPT !.line = Append(g.line, triple),
                                !.after_newline = FALSE])

greedy_text_layout(styles, triples, width, style) ==
    GreedyLoop(styles, triples, 1, width, style,
        [lines |-> <<>>, lines_last |-> <<>>, line |-> <<>>,
         target |-> width - style.first_indent, after_newline |-> TRUE])

\* ------------------------------------------------------------------------
\* subtitle_text_layout_core and the pieces of subtitle_text_layout.  The
\* widths are integers, so "/" is Python 2's floor division.
\* ------------------------------------------------------------------------
FloorDiv(a, b) == a \div b

\* "Remove trailing whitespace": one l.pop() and one l.pop(0) a line.
StripEnds(lines) ==
    [k \in 1..Len(lines) |->
        LET l == lines[k]
            m == IF l # <<>> /\ l[Len(l)].type = "space"
                 THEN SubSeq(l, 1, Len(l) - 1) ELSE l
        IN  IF m # <<>> /\ m[1].type = "space" THEN Tail(m) ELSE m]

\* The line is closed because the triple does not fit or is a newline.
CoreBreak(styles, c, triple, soft, justify) ==
    LET n == c.n - 1
        line == IF n > 0 /\ c.line # <<>> /\ c.line[Len(c.line)].type = "space"
                THEN SubSeq(c.line, 1, Len(c.line) - 1) ELSE c.line
        total == IF n > 0 THEN c.total - layout_width(styles, line, justify)
                 ELSE c.total
    IN  [lines |-> Append(c.lines, line),
         line |-> IF triple.type = "newline" THEN <<>> ELSE <<triple>>,
         n |-> n, total |-> total,
         linesoft |-> IF n > 0 THEN FloorDiv(total, n) ELSE soft]

\* The triple is appended; the line is closed when it passed the soft width.
CoreAppend(c, triple, lw, soft) ==
    LET n == c.n - 1
        total == IF n > 0 THEN c.total - lw ELSE c.total
    IN  IF lw > c.linesoft
        THEN [lines |-> Append(c.lines, Append(c.line, triple)),
              line |-> <<>>, n |-> n, total |-> total,
              linesoft |-> IF n > 0 THEN FloorDiv(total, n) ELSE soft]
        ELSE [c EXCEPT !.line = Append(c.line, triple)]

CoreTriple(styles, c, triple, width, soft, justify, lw) ==
    IF lw > width \/ triple.type = "newline"
    THEN CoreBreak(styles, c, triple, soft, justify)
    ELSE CoreAppend(c, triple, lw, soft)

RECURSIVE CoreLoop(_, _, _, _, _, _, _)
CoreLoop(styles, triples, k, width, soft, justify, c) ==
    IF k > Len(triples) THEN StripEnds(Append(c.lines, c.line))
    ELSE IF triples[k].type = "space"
    THEN CoreLoop(styles, triples, k + 1, width, soft, justify,
             IF c.line = <<>> THEN c
             ELSE [c EXCEPT !.line = Append(c.line, triples[k])])
    ELSE CoreLoop(styles, triples, k + 1, width, soft, justify,
             CoreTriple(styles, c, triples[k], width, soft, justify,
                 layout_width(styles, Append(c.line, triples[k]), justify)))

subtitle_text_layout_core(styles, triples, width, style, soft, n, justify) ==
    CoreLoop(styles, triples, 1, width, soft, justify,
        [lines |-> <<>>, line |-> <<>>, n |-> n, total |-> soft * n,
         linesoft |-> FloorDiv(soft * n, n)])

\* style.subtitle_width: an int, or a float num/den that is a fraction of
\* the width.
SubtitleWidth(float, num, den) == [float |-> float, num |-> num, den |-> den]

SoftWidth(style, width) ==
    IF style.subtitle_width.float
    THEN FloorDiv(style.subtitle_width.num * width, style.subtitle_width.den)
    ELSE style.subtitle_width.num

\* "Split things up into paragraphs."
RECURSIVE Paragraphs(_, _, _)
Paragraphs(triples, k, pars) ==
    IF k > Len(triples) THEN pars
    ELSE IF triples[k].type = "newline"
    THEN Paragraphs(triples, k + 1, Append(pars, <<>>))
    ELSE Paragraphs(triples, k + 1,
             [pars EXCEPT ![Len(pars)] = Append(@, triples[k])])

\* A word wider than the width becomes one word a character.
SplitWide(styles, triples, width, justify) ==
    Concat([x \in 1..Len(triples) |->
        IF layout_width(styles, <<triples[x]>>, justify) <= width
               \/ triples[x].type # "word"
        THEN <<triples[x]>>
        ELSE [n \in 1..Len(triples[x].i) |->
                 Triple("word", triples[x].ts, <<triples[x].i[n]>>)]])

Min(a, b) == IF a < b THEN a ELSE b

\* An estimate that always starts from one line.
SubtitleEstimateOne(sumwidths, bound, i) == 1

\* "while sumwidths / i > min(width, softwidth): i += 1"
RECURSIVE SubtitleEstimate(_, _, _)
SubtitleEstimate(sumwidths, bound, i) ==
    IF FloorDiv(sumwidths, i) > bound
    THEN SubtitleEstimate(sumwidths, bound, i + 1) ELSE i

\* The flags appended after a paragraph, lines being all the lines so far.
SubtitleFlags(lines) == [k \in 1..Len(lines) |-> k = Len(lines)]

\* text_layout (style.layout is "greedy").
text_layout(styles, triples, width, style) ==
    greedy_text_layout(styles, triples, width, style)

\* ------------------------------------------------------------------------
\* Text.layout, first half: the tag/style stack machine.  L is the state of
\* the pass: tsl the stack of styles (indexes into styles), styles the table
\* of the style objects created so far, triples the triples emitted, links
\* self.laidout_hyperlinks, error the exception raised ("none": none yet).
\* ------------------------------------------------------------------------
WidgetText == <<"[widget]">>

WidgetWidth == 2

Top(L) == L.tsl[Len(L.tsl)]

Emit(L, type, i) == [L EXCEPT !.triples = Append(@, Triple(type, Top(L), i))]

Raise(L, e) == [L EXCEPT !.error = e]

\* A push that puts the style object on top of the stack on it once more,
\* instead of a new one.
PushAlias(L, ts) == [L EXCEPT !.tsl = Append(@, Top(L))]

\* tsl.append(ts): a new style object, pushed.
Push(L, ts) ==
    [L EXCEPT !.styles = Append(@, ts), !.tsl = Append(@, Len(L.styles) + 1)]

\* tsl[-1].<attribute> = value, on the style object on top of the stack.
SetTop(L, ts) == [L EXCEPT !.styles[Top(L)] = ts]

\* A closing tag that leaves the root style alone.
CloseTagKeepsRoot(L, i) ==
    IF Len(L.tsl) = 1 THEN L ELSE [L EXCEPT !.tsl = SubSeq(@, 1, Len(@) - 1)]

\* A closing tag: tsl.pop(), and the error of an empty stack.
CloseTag(L, i) ==
    LET popped == [L EXCEPT !.tsl = SubSeq(@, 1, Len(@) - 1)]
    IN  IF popped.tsl = <<>> THEN Raise(popped, "close_no_open") ELSE popped

\* The group (.*) of re.match(r'a=(.*)', i): "." matches no newline.
DotStar(t) ==
    LET N == {k \in 1..Len(t) : t[k] = "\n"}
    IN  IF N = {} THEN t
        ELSE SubSeq(t, 1, (CHOOSE k \in N : \A j \in N : k <= j) - 1)

\* {a=target} with the index counted from one.
HyperlinkTagFromOne(L, i, focus_argument, activated) ==
    LET target == DotStar(SubSeq(i, 3, Len(i)))
        link == Len(L.links) + 1
        prefix == IF focus_argument = link
                  THEN IF activated THEN "activate_" ELSE "hover_"
                  ELSE "idle_"
        hls == HyperlinkStyle(prefix)
        pushed == Push(L, TextStyle(hls.font, hls.size, hls.bold, hls.italic,
                           hls.underline, hls.strikethrough, hls.color,
                           hls.black_color, link))
    IN  [pushed EXCEPT !.links = Append(@, target)]

\* {a=target}.
HyperlinkTag(L, i, focus_argument, activated) ==
    LET target == DotStar(SubSeq(i, 3, Len(i)))
        link == Len(L.links)
        prefix == IF focus_argument = link
                  THEN IF activated THEN "activate_" ELSE "hover_"
                  ELSE "idle_"
        hls == HyperlinkStyle(prefix)
        pushed == Push(L, TextStyle(hls.font, hls.size, hls.bold, hls.italic,
                           hls.underline, hls.strikethrough, hls.color,
                           hls.black_color, link))
    IN  [pushed EXCEPT !.links = Append(@, target)]

\* Every other tag opens a scope: tsl.append(TextStyle(tsl[-1])), then the
\* attribute the tag sets.
OpenTag(L, i) ==
    LET top == L.styles[Top(L)]
        P == Push(L, top)
    IN  IF i = <<"b">> THEN SetTop(P, [top EXCEPT !.bold = TRUE])
        ELSE IF i = <<"i">> THEN SetTop(P, [top EXCEPT !.italic = TRUE])
        ELSE IF i = <<"u">> THEN SetTop(P, [top EXCEPT !.underline = TRUE])
        ELSE IF i = <<"s">> THEN SetTop(P, [top EXCEPT !.strikethrough = TRUE])
        ELSE IF i = <<"p", "l", "a", "i", "n">>
            THEN SetTop(P, [top EXCEPT !.bold = FALSE, !.italic = FALSE,
                                       !.underline = FALSE])
        ELSE IF i[1] = "="
            THEN IF Tail(i) \in DOMAIN StoreStyles
                 THEN LET style == StoreStyles[Tail(i)]
                      IN  SetTop(P, TextStyle(style.font, style.size, style.bold,
                                     style.italic, style.underline,
                                     style.strikethrough, style.color,
                                     style.black_color, top.hyperlink))
                 ELSE Raise(P, "no_such_style")
        ELSE IF StartsWith(i, <<"f", "o", "n", "t">>)
            THEN IF StartsWith(i, <<"f", "o", "n", "t", "=">>)
                 THEN SetTop(P, [top EXCEPT !.font = SubSeq(i, 6, Len(i))])
                 ELSE Raise(P, "bad_font_tag")
        ELSE IF StartsWith(i, <<"s", "i", "z", "e">>)
            THEN IF StartsWith(i, <<"s", "i", "z", "e", "=">>)
                 THEN LET r0 == SubSeq(i, 6, Len(i))
                          sign == IF r0 # <<>> /\ r0[1] \in {"+", "-"}
                                  THEN r0[1] ELSE ""
                          r == IF sign = "" THEN r0 ELSE Tail(r0)
                          n == DecVal(DigitPrefix(r))
                      IN  IF DigitPrefix(r) = <<>> THEN Raise(P, "bad_size_tag")
                          ELSE IF sign = "+"
                              THEN SetTop(P, [top EXCEPT !.size = @ + n])
                          ELSE IF sign = "-"
                              THEN SetTop(P, [top EXCEPT !.size = @ - n])
                          ELSE SetTop(P, [top EXCEPT !.size = n])
                 ELSE Raise(P, "bad_size_tag")
        ELSE IF StartsWith(i, <<"c", "o", "l", "o", "r">>)
            THEN IF StartsWith(i, <<"c", "o", "l", "o", "r", "=">>)
                 THEN LET r0 == SubSeq(i, 7, Len(i))
                          hash == r0 # <<>> /\ r0[1] = "#"
                          h == HexPrefix(IF hash THEN Tail(r0) ELSE r0)
                          c == color((IF hash THEN <<"#">> ELSE <<>>) \o h)
                      IN  IF h = <<>> THEN Raise(P, "bad_color_tag")
                          ELSE IF c = ColorError THEN Raise(P, "bad_color")
                          ELSE SetTop(P, [top EXCEPT !.color = c])
                 ELSE Raise(P, "bad_color_tag")
        ELSE Raise(P, "unknown_tag")

\* One token of the loop "for kind, i in ti".
LayoutToken(L, tok, focus_argument, activated) ==
    LET kind == tok.kind
        i == tok.text
    IN  IF kind = "newline" THEN Emit(L, "newline", <<>>)
        ELSE IF kind = "tag"
            THEN IF i[1] = "/" THEN CloseTag(L, i)
                 ELSE IF i = <<"w">> THEN L
                 ELSE IF i = <<"n", "w">> THEN L
                 ELSE IF StartsWith(i, <<"w", "=">>) THEN L
                 ELSE IF i = <<"f", "a", "s", "t">> THEN Emit(L, "start", <<>>)
                 ELSE IF StartsWith(i, <<"a", "=">>)
                     THEN HyperlinkTag(L, i, focus_argument, activated)
                 ELSE OpenTag(L, i)
        ELSE IF kind = "space" THEN Emit(L, "space", i)
        ELSE IF kind = "word" THEN Emit(L, "word", i)
        ELSE IF kind = "widget"
            THEN LET W == [L EXCEPT !.styles = Append(@,
                              [kind |-> "widget", width |-> WidgetWidth,
                               size |-> L.styles[Top(L)].size,
                               hyperlink |-> NoLink])]
                 IN  [W EXCEPT !.triples =
                         Append(@, Triple("word", Len(W.styles), i))]
        ELSE Raise(L, "unknown_kind")

RECURSIVE TagLoop(_, _, _, _, _)
TagLoop(L, tokens, k, focus_argument, activated) ==
    IF k > Len(tokens) \/ L.error # "none" THEN L
    ELSE TagLoop(LayoutToken(L, tokens[k], focus_argument, activated),
                 tokens, k + 1, focus_argument, activated)

\* "We're done matching tags": the exception for a tag left open is built
\* and dropped, never raised.
LeftOpen(L) == L

\* The stack, the triples and the hyperlink table before the first token.
TagStart(style) ==
    [tsl |-> <<1>>,
     styles |-> <<TextStyle(style.font, style.size, style.bold,
                      style.italic, style.underline, style.strikethrough,
                      NoColor, NoColor, NoLink)>>,
     triples |-> <<>>, links |-> <<>>, error |-> "none"]

TagMachine(tokens, style, focus_argument, activated) ==
    LeftOpen(TagLoop(TagStart(style), tokens, 1, focus_argument, activated))

\* ------------------------------------------------------------------------
\* Text.layout, second half: the lines of triples become lines of runs
\* (style, text), counted and measured.  A run of a SpacerStyle has ts = 0.
\* ------------------------------------------------------------------------
Run(ts, text) == [ts |-> ts, text |-> text]

SpacerId == 0

\* ts.length(text): len(text) for a TextStyle, 1 for a WidgetStyle, 0 for a
\* SpacerStyle.
StyleLength(styles, ts, text) ==
    IF ts = SpacerId THEN 0
    ELSE IF styles[ts].kind = "widget" THEN 1
    ELSE Len(text)

\* ts.sizes(text).
Sizes(styles, ts, text) ==
    IF ts = SpacerId THEN <<0, 0>>
    ELSE IF styles[ts].kind = "widget" THEN <<styles[ts].width, styles[ts].size>>
    ELSE <<FontWidth(styles[ts], text), FontHeight(styles[ts])>>

\* "Add something to empty lines."
FillEmpty(linetriples, top) ==
    [k \in 1..Len(linetriples) |->
        IF linetriples[k] = <<>> THEN <<Triple("word", top, <<" ">>)>>
        ELSE linetriples[k]]

\* The loop "for kind, ts, i in l" over one line.  a.oldts = 0 is None.
RECURSIVE RunsLoop(_, _, _, _, _)
RunsLoop(styles, l, k, justify, a) ==
    IF k > Len(l)
    THEN IF a.oldts # 0 THEN [a EXCEPT !.line = Append(@, Run(a.oldts, a.cur))]
         ELSE a
    ELSE LET t == l[k]
         IN  IF t.type = "start"
             THEN RunsLoop(styles, l, k + 1, justify, [a EXCEPT !.start = a.length])
             ELSE LET n == a.length + StyleLength(styles, t.ts, t.i)
                      b == IF t.ts # a.oldts
                           THEN [a EXCEPT
                                   !.line = IF a.oldts # 0
                                            THEN Append(@, Run(a.oldts, a.cur))
                                            ELSE @,
                                   !.oldts = t.ts, !.cur = t.i, !.length = n]
                           ELSE [a EXCEPT !.cur = @ \o t.i, !.length = n]
                  IN  IF justify /\ t.type = "space"
                      THEN RunsLoop(styles, l, k + 1, justify,
                               [b EXCEPT
                                  !.line = (IF b.cur # <<>>
                                            THEN Append(@, Run(b.oldts, b.cur))
                                            ELSE @) \o <<Run(SpacerId, <<>>)>>,
                                  !.cur = <<>>])
                      ELSE RunsLoop(styles, l, k + 1, justify, b)

\* The width and height of a line of runs.
RECURSIVE LineSize(_, _, _)
LineSize(styles, line, k) ==
    IF k > Len(line) THEN <<0, 0>>
    ELSE LET i == IF Len(line) = 1 /\ line[k].text = <<>> THEN <<" ">>
                  ELSE line[k].text
             wh == Sizes(styles, line[k].ts, i)
             rest == LineSize(styles, line, k + 1)
         IN  <<wh[1] + rest[1], IF wh[2] > rest[2] THEN wh[2] ELSE rest[2]>>

\* The loop "for l in linetriples".  o holds the laidout_* fields.
RECURSIVE LinesLoop(_, _, _, _, _)
LinesLoop(styles, linetriples, k, style, o) ==
    IF k > Len(linetriples) THEN o
    ELSE LET a == RunsLoop(styles, linetriples[k], 1, style.justify,
                      [line |-> <<>>, oldts |-> 0, cur |-> <<>>,
                       length |-> o.laidout_length, start |-> o.laidout_start])
             wh == LineSize(styles, a.line, 1)
         IN  LinesLoop(styles, linetriples, k + 1, style,
                 [o EXCEPT
                    !.laidout = Append(@, a.line),
                    !.laidout_linewidths = Append(@, wh[1]),
                    !.laidout_lineheights = Append(@, wh[2]),
                    !.laidout_width = IF wh[1] > @ THEN wh[1] ELSE @,
                    !.laidout_height = @ + wh[2] + style.line_spacing,
                    !.laidout_start = a.start,
                    !.laidout_length = a.length + 1])

\* The whole pass.  error # "none": the pass raised before any laidout_*
\* field other than laidout_hyperlinks was assigned.
LayoutPass(tokens, width, style, focus_argument, activated) ==
    LET L == TagMachine(tokens, style, focus_argument, activated)
        tl == text_layout(L.styles, L.triples, width, style)
    IN  IF L.error # "none"
        THEN [error |-> L.error, laidout_hyperlinks |-> L.links, machine |-> L]
        ELSE LinesLoop(L.styles, FillEmpty(tl.lines, Top(L)), 1, style,
                 [error |-> "none", laidout_hyperlinks |-> L.links,
                  machine |-> L,
                  linetriples |-> tl.lines,
                  laidout |-> <<>>, laidout_lineheights |-> <<>>,
                  laidout_linewidths |-> <<>>, laidout_length |-> 0,
                  laidout_start |-> 0, laidout_width |-> style.min_width,
                  laidout_height |-> 0, laidout_lines_last |-> tl.lines_last])

\* ------------------------------------------------------------------------
\* Text.update: the pause bookkeeping and the rewriting of the tokens of the
\* first segment.  A pause length is a number of ticks or None (forever).
\* ------------------------------------------------------------------------
\* float(text[2:]) of a w= or p= tag (the tags of the model carry digits).
ParseFloatZero(t) == 0

ParseFloat(t) == DecVal(t)

\* The first loop over self.tokens[0].
RECURSIVE UpdateScan(_, _, _)
UpdateScan(tokens, k, a) ==
    IF k > Len(tokens) THEN a
    ELSE LET i == tokens[k]
             text == i.text
         IN  IF i.kind # "tag"
                 THEN UpdateScan(tokens, k + 1, [a EXCEPT !.new_tokens = Append(@, i)])
             ELSE IF text = <<"p">>
                 THEN UpdateScan(tokens, k + 1,
                          [a EXCEPT !.new_tokens = @ \o <<Token("tag", <<"w">>),
                                                       Token("newline", <<"\n">>)>>,
                                    !.pauses = @ + 1,
                                    !.pause_lengths = Append(@, None)])
             ELSE IF StartsWith(text, <<"p", "=">>)
                 THEN UpdateScan(tokens, k + 1,
                          [a EXCEPT !.new_tokens = @ \o
                                        <<Token("tag", <<"w", "=">> \o SubSeq(text, 3, Len(text))),
                                          Token("newline", <<"\n">>)>>,
                                    !.pauses = @ + 1,
                                    !.pause_lengths =
                                        Append(@, ParseFloat(SubSeq(text, 3, Len(text))))])
             ELSE IF text = <<"n", "w">>
                 THEN UpdateScan(tokens, k + 1,
                          [a EXCEPT !.new_tokens = Append(@, i), !.no_wait = TRUE])
             ELSE IF text = <<"f", "a", "s", "t">>
                 THEN UpdateScan(tokens, k + 1,
                          [a EXCEPT !.new_tokens = Append(@, i), !.no_wait = FALSE,
                                    !.fasts = @ + 1, !.pauses = 0,
                                    !.pause_lengths = <<>>])
             ELSE IF text = <<"w">>
                 THEN UpdateScan(tokens, k + 1,
                          [a EXCEPT !.new_tokens = Append(@, i), !.pauses = @ + 1,
                                    !.pause_lengths = Append(@, None)])
             ELSE IF StartsWith(text, <<"w", "=">>)
                 THEN UpdateScan(tokens, k + 1,
                          [a EXCEPT !.new_tokens = Append(@, i), !.pauses = @ + 1,
                                    !.pause_lengths =
                                        Append(@, ParseFloat(SubSeq(text, 3, Len(text))))])
             ELSE UpdateScan(tokens, k + 1, [a EXCEPT !.new_tokens = Append(@, i)])

\* The second loop, run when self.pause is not None: the tokens are cut at
\* the pause-th pause after the last fast tag, or at an nw tag.
RECURSIVE UpdateCut(_, _, _)
UpdateCut(tokens, k, a) ==
    IF k > Len(tokens) THEN a
    ELSE LET i == tokens[k]
             text == i.text
             fasts == IF i.kind = "tag" /\ text = <<"f", "a", "s", "t">>
                      THEN a.fasts - 1 ELSE a.fasts
             b == [a EXCEPT !.fasts = fasts,
                            !.new_tokens = IF i.kind = "tag" /\ text = <<"n", "w">>
                                           THEN @ ELSE Append(@, i)]
         IN  IF i.kind # "tag" \/ fasts # 0 THEN UpdateCut(tokens, k + 1, b)
             ELSE IF text = <<"n", "w">> THEN [b EXCEPT !.no_wait_once = TRUE]
             ELSE IF text = <<"w">>
                 THEN IF b.pause = 0
                      THEN [b EXCEPT !.keep_pausing = TRUE, !.pause_length = None]
                      ELSE UpdateCut(tokens, k + 1, [b EXCEPT !.pause = @ - 1])
             ELSE IF StartsWith(text, <<"w", "=">>)
                 THEN IF b.pause = 0
                      THEN [b EXCEPT !.keep_pausing = TRUE,
                                     !.pause_length = ParseFloat(SubSeq(text, 3, Len(text)))]
                      ELSE UpdateCut(tokens, k + 1, [b EXCEPT !.pause = @ - 1])
             ELSE UpdateCut(tokens, k + 1, b)

\* "Postprocess the tokens list to create widgets": an image= tag becomes a
\* widget token.
MakeWidgets(tl) ==
    [k \in 1..Len(tl) |->
        IF tl[k].kind = "tag" /\ StartsWith(tl[k].text, <<"i", "m", "a", "g", "e", "=">>)
        THEN Token("widget", WidgetText)
        ELSE tl[k]]

\* input_tokenizer(text, style) for a text that is one string.
input_tokenizer(text) == <<text_tokenizer(text)>>

\* The pause bookkeeping of a scan that forgets to start from zero.
ScanStartKeeping(t) ==
    [new_tokens |-> <<>>, fasts |-> 0, no_wait |-> FALSE, pauses |-> t.pauses,
     pause_lengths |-> t.pause_lengths]

ScanStart(t) ==
    [new_tokens |-> <<>>, fasts |-> 0, no_wait |-> FALSE, pauses |-> 0,
     pause_lengths |-> <<>>]

\* The end of Text.update: the fields it assigns from the scan a and the
\* cut c of the tokens.
UpdateStore(t, a, c) ==
    [t EXCEPT
       !.laidout = <<>>,
       !.tokens = <<MakeWidgets(c.new_tokens)>>,
       !.no_wait = IF t.slow THEN a.no_wait ELSE FALSE,
       !.no_wait_once = IF t.slow THEN c.no_wait_once ELSE FALSE,
       !.no_wait_done = FALSE,
       !.pauses = a.pauses,
       !.pause_lengths = a.pause_lengths,
       !.keep_pausing = c.keep_pausing,
       !.pause_length = c.pause_length]

\* The second loop started without the count of fast tags of the first.
UpdatePauseNoFasts(t, a) ==
    UpdateStore(t, a,
        IF t.pause # None
        THEN UpdateCut(a.new_tokens, 1,
                 [new_tokens |-> <<>>, fasts |-> 0,
                  pause |-> t.pause, no_wait_once |-> FALSE,
                  keep_pausing |-> t.keep_pausing,
                  pause_length |-> t.pause_length])
        ELSE [new_tokens |-> a.new_tokens, no_wait_once |-> FALSE,
              keep_pausing |-> t.keep_pausing,
              pause_length |-> t.pause_length])

\* The part of Text.update after the first loop, whose result is a.
UpdatePause(t, a) ==
    UpdateStore(t, a,
        IF t.pause # None
        THEN UpdateCut(a.new_tokens, 1,
                 [new_tokens |-> <<>>, fasts |-> a.fasts,
                  pause |-> t.pause, no_wait_once |-> FALSE,
                  keep_pausing |-> t.keep_pausing,
                  pause_length |-> t.pause_length])
        ELSE [new_tokens |-> a.new_tokens, no_wait_once |-> FALSE,
              keep_pausing |-> t.keep_pausing,
              pause_length |-> t.pause_length])

\* Text.update, on the record t of the fields of the Text.
update(t, styles_built) ==
    IF ~styles_built THEN [t EXCEPT !.laidout = <<>>]
    ELSE UpdatePause(t,
             UpdateScan(input_tokenizer(IF t.text # <<>> THEN t.text ELSE <<" ">>)[1],
                        1, ScanStart(t)))

\* ------------------------------------------------------------------------
\* The Text displayable.  The record of a Text holds its fields; laidout and
\* tokens are <<>> where Python has None (a layout has at least one line,
\* the token list of a string at least one segment).  Fields that Python
\* creates later (no_wait, pauses, laidout_*) hold a placeholder until then.
\* ------------------------------------------------------------------------
MaxInt == 2147483647

\* Text.__init__: slow is "None", "True" or "False"; slow_done tells whether
\* a callback was given; the text is one string, tokenized is False.
Construct(text, slow, slow_done, slow_start, pause, style, styles_built) ==
    update([text |-> text, pause |-> pause, keep_pausing |-> FALSE,
            pause_length |-> None, slow |-> slow \in {"None", "True"},
            slow_param |-> slow, slow_done |-> slow_done,
            slow_start |-> slow_start, slow_done_time |-> None,
            laidout |-> <<>>, tokens |-> <<>>, pause_lengths |-> <<>>,
            width |-> -1, style |-> style, activated |-> FALSE,
            no_wait |-> FALSE, no_wait_once |-> FALSE, no_wait_done |-> FALSE,
            pauses |-> 0,
            laidout_styles |-> <<>>, laidout_lineheights |-> <<>>,
            laidout_linewidths |-> <<>>, laidout_length |-> 0,
            laidout_start |-> 0, laidout_width |-> 0, laidout_height |-> 0,
            laidout_hyperlinks |-> <<>>, laidout_lines_last |-> <<>>],
           styles_built)

\* A layout that tokenizes again whatever it has.
LayoutTokensAlways(t, styles_built) == update(t, styles_built)

\* "if self.tokens is None: self.update()" of Text.layout.
LayoutTokens(t, styles_built) ==
    IF t.tokens = <<>> THEN update(t, styles_built) ELSE t

\* The end of Text.layout: w is the Text with its width set, o the result
\* of the layout pass.
LayoutStore(w, o) ==
    IF o.error # "none"
    THEN [t |-> [w EXCEPT !.laidout_hyperlinks = o.laidout_hyperlinks],
          error |-> o.error]
    ELSE [t |-> [w EXCEPT
                   !.laidout = o.laidout,
                   !.laidout_styles = o.machine.styles,
                   !.laidout_lineheights = o.laidout_lineheights,
                   !.laidout_linewidths = o.laidout_linewidths,
                   !.laidout_length = o.laidout_length,
                   !.laidout_start = o.laidout_start,
                   !.laidout_width = o.laidout_width,
                   !.laidout_height = o.laidout_height,
                   !.laidout_hyperlinks = o.laidout_hyperlinks,
                   !.laidout_lines_last = o.laidout_lines_last],
          error |-> "none"]

\* Text.layout from "self.width = width" on, u being the Text then.
LayoutAt(u, width, focus_argument) ==
    IF u.tokens = <<>>
    THEN [t |-> [u EXCEPT !.width = width], error |-> "tokens_none"]
    ELSE LayoutStore([u EXCEPT !.width = width],
                     LayoutPass(Concat(u.tokens), width, u.style,
                                focus_argument, u.activated))

\* Text.layout.  The result is the Text after the call and the exception
\* raised ("none": the call returned).
layout(t, width, styles_built, focus_argument) ==
    IF t.laidout # <<>> /\ t.width = width THEN [t |-> t, error |-> "none"]
    ELSE LayoutAt(LayoutTokens(t, styles_built), width, focus_argument)

\* Text.render_pass: TRUE when all characters were rendered, FALSE when the
\* length restriction stopped some from being rendered.  The loop over the
\* runs of one line gives the length left, or -1 when it returned False.
\* A loop over the runs that stops only when a run did not fit whole.
RECURSIVE RenderRunsLate(_, _, _, _)
RenderRunsLate(styles, line, k, length) ==
    IF k > Len(line) THEN [stopped |-> FALSE, length |-> length]
    ELSE IF line[k].ts = SpacerId THEN RenderRunsLate(styles, line, k + 1, length)
    ELSE LET n == length - StyleLength(styles, line[k].ts, line[k].text)
         IN  IF n < 0 THEN [stopped |-> TRUE, length |-> n]
             ELSE RenderRunsLate(styles, line, k + 1, n)

RECURSIVE RenderRuns(_, _, _, _)
RenderRuns(styles, line, k, length) ==
    IF k > Len(line) THEN [stopped |-> FALSE, length |-> length]
    ELSE IF line[k].ts = SpacerId THEN RenderRuns(styles, line, k + 1, length)
    ELSE LET n == length - StyleLength(styles, line[k].ts, line[k].text)
         IN  IF n < 0 /\ styles[line[k].ts].kind # "text"
                 THEN [stopped |-> TRUE, length |-> n]
             ELSE IF n <= 0 THEN [stopped |-> TRUE, length |-> n]
             ELSE RenderRuns(styles, line, k + 1, n)

RECURSIVE RenderLines(_, _, _, _)
RenderLines(styles, laidout, k, length) ==
    IF k > Len(laidout) THEN TRUE
    ELSE LET r == RenderRuns(styles, laidout[k], 1, length)
         IN  IF r.stopped THEN FALSE
             ELSE RenderLines(styles, laidout, k + 1, r.length - 1)

render_pass(t, length) == RenderLines(t.laidout_styles, t.laidout, 1, length)

\* Text.call_slow_done.
call_slow_done(t, st) ==
    IF ~t.slow THEN t
    ELSE [t EXCEPT !.slow = FALSE, !.slow_done = FALSE, !.slow_done_time = st,
                   !.no_wait_done = IF t.no_wait_once THEN TRUE ELSE @]

\* Does call_slow_done(t, st) call the callback self.slow_done?
CallsBack(t) == t.slow /\ t.slow_done

\* The speed Text.render computes; 0 and None both mean "no slow text".
\* style.slow_cps is None, True (CpsTrue) or a number.
CpsTrue == -2

RenderSpeed(t, text_cps, less_updates) ==
    LET cps == t.style.slow_cps
        s1 == IF t.slow_param = "True" /\ cps = None THEN text_cps ELSE cps
        s2 == IF s1 = CpsTrue THEN text_cps ELSE s1
        s3 == IF s2 # None /\ s2 # 0 THEN s2 * t.style.slow_cps_multiplier ELSE s2
    IN  IF less_updates THEN None ELSE s3

Max(a, b) == IF a > b THEN a ELSE b

\* The length Text.render hands to render_pass.
RenderLength(t, speed, st) ==
    IF t.slow /\ speed # None /\ speed # 0
    THEN Max(t.slow_start, t.laidout_start) + st * speed
    ELSE MaxInt

\* ------------------------------------------------------------------------
\* Tagged strings given to check_text_tags: a string is written as a list of
\* pieces (a word, a space, a tag with its braces), and handed to the code as
\* the characters of the pieces.
\* ------------------------------------------------------------------------
Piece(k, name, a) == [k |-> k, name |-> name, a |-> a]

WordPiece == Piece("word", <<"x">>, <<>>)

SelfPieces == {Piece("self", <<"w">>, <<>>), Piece("self", <<"w">>, <<"1">>)}

\* {b}, {i}, {=s} and their close tags {/b}, {/i}, {/=s}.
ScopeHeads == {<<<<"b">>, <<>>>>, <<<<"i">>, <<>>>>, <<<<>>, <<"s">>>>}

OpenPieces == {Piece("open", h[1], h[2]) : h \in ScopeHeads}

ClosePieces == {Piece("close", h[1], h[2]) : h \in ScopeHeads}

\* Tags whose name is not a key of text_tags.
UnknownPieces == {Piece("self", <<"q">>, <<>>), Piece("self", <<"q">>, <<"1">>)}

\* Names a close tag can be renamed to.
CloseNames == {<<"b">>, <<"i">>, <<>>, <<"q">>}

Pieces == {WordPiece} \cup SelfPieces \cup OpenPieces \cup ClosePieces

PieceChars(pc) ==
    IF pc.k = "word" THEN pc.name
    ELSE <<"{">> \o (IF pc.k = "close" THEN <<"/">> ELSE <<>>) \o pc.name
             \o (IF pc.a # <<>> THEN <<"=">> \o pc.a ELSE <<>>) \o <<"}">>

Chars(q) == Concat([k \in 1..Len(q) |-> PieceChars(q[k])])

\* Properly nested and closed, by the grammar
\*   B ::= empty | atom B | open(n) B close(n) B
RECURSIVE WellNested(_)
WellNested(q) ==
    \/ q = <<>>
    \/ /\ q # <<>>
       /\ q[1].k \in {"word", "self"}
       /\ WellNested(Tail(q))
    \/ /\ q # <<>>
       /\ q[1].k = "open"
       /\ \E j \in 2..Len(q) :
              /\ q[j].k = "close"
              /\ q[j].name = q[1].name
              /\ WellNested(SubSeq(q, 2, j - 1))
              /\ WellNested(SubSeq(q, j + 1, Len(q)))

\* One corruption of a properly nested string.
Corruptions(q) ==
    {[c |-> "none", at |-> 0, with |-> <<>>]}
    \cup {[c |-> "drop", at |-> k, with |-> <<>>] :
              k \in {j \in 1..Len(q) : q[j].k = "close"}}
    \cup {[c |-> "rename", at |-> k, with |-> n] :
              k \in {j \in 1..Len(q) : q[j].k = "close"}, n \in CloseNames}
    \cup {[c |-> "unknown", at |-> k, with |-> u.a] :
              k \in 0..Len(q), u \in UnknownPieces}

Corrupt(q, c) ==
    IF c.c = "drop" THEN RemoveAt(q, c.at)
    ELSE IF c.c = "rename"
        THEN [q EXCEPT ![c.at] = Piece("close", c.with, <<>>)]
    ELSE IF c.c = "unknown"
        THEN InsertAt(q, c.at, Piece("self", <<"q">>, c.with))
    ELSE q

\* The inputs made of the pieces q: q itself and, when q is properly
\* nested, each of its single corruptions.
CheckInputs(q) ==
    {[base |-> q, corr |-> c, s |-> Chars(Corrupt(q, c))] :
        c \in {x \in Corruptions(q) :
                  /\ x.c # "none" => WellNested(q)
                  /\ x.c = "rename" => x.with # q[x.at].name}}

\* ------------------------------------------------------------------------
\* The tags a string leaves open, read off the string itself: the string is
\*   B open(n1) B open(n2) ... open(nk) B    with every B properly nested,
\* and n1 .. nk are the tags still open at its end, outermost first.
\* ------------------------------------------------------------------------
NextIn(P, p, n) ==
    LET later == {x \in P \cup {n + 1} : x > p}
    IN  CHOOSE x \in later : \A y \in later : x <= y

IsOpenChain(q, P) ==
    /\ \A p \in P : q[p].k = "open"
    /\ \A p \in P \cup {0} :
           WellNested(SubSeq(q, p + 1, NextIn(P, p, Len(q)) - 1))

HasOpenChain(q) == \E P \in SUBSET (1..Len(q)) : P # {} /\ IsOpenChain(q, P)

Ascending(P) ==
    CHOOSE f \in [1..Cardinality(P) -> P] :
        \A a, b \in 1..Cardinality(P) : a < b => f[a] < f[b]

OpenAtEnd(q) ==
    LET P == CHOOSE X \in SUBSET (1..Len(q)) : X # {} /\ IsOpenChain(q, X)
    IN  [k \in 1..Cardinality(P) |-> q[Ascending(P)[k]].name]

\* ------------------------------------------------------------------------
\* Placeholders for the variables a specification does not use.
\* ------------------------------------------------------------------------
NoText == [unused |-> TRUE]

NoEnv == [unused |-> TRUE]

NoHist == [unused |-> TRUE]

\* ------------------------------------------------------------------------
\* Spec: a Text displayable driven by its host.  arg holds the arguments the
\* Text was constructed with; env the process-wide state (styles_built, the
\* focus, the clock st of the frame); hist what the last call did.  The
\* host of Spec draws no hyperlink and never gives the Text the focus.
\* ------------------------------------------------------------------------
Str_xxx_fast_xx == <<"x", "x", "x", "{", "f", "a", "s", "t", "}", "x", "x">>

Str_pauses == <<"x", "{", "w", "=", "0", "}", "x", "{", "p", "}", "x">>

Str_nw == <<"x", "{", "n", "w", "}", "x", "{", "w", "=", "2", "}">>

Texts == {Str_xxx_fast_xx, Str_pauses, Str_nw}

Styles ==
    {WidgetStyleProps,
     [WidgetStyleProps EXCEPT !.slow_abortable = FALSE, !.slow_cps = None]}

Widths == {2, 6}

\* renpy.game.preferences.text_cps and renpy.game.less_updates.
text_cps == 2

less_updates == FALSE

Events == {"dismiss", "button_select", "other"}

\* The arguments of Text(...) other than the text and the style.
Ctor(slow, slow_done, slow_start, pause) ==
    [slow |-> slow, slow_done |-> slow_done, slow_start |-> slow_start,
     pause |-> pause]

CtorArgs ==
    {Ctor("None", TRUE, 0, None), Ctor("True", TRUE, 0, 0),
     Ctor("True", TRUE, 2, None), Ctor("False", TRUE, 0, 0),
     Ctor("None", FALSE, 0, None)}

\* hist: last is the kind of the last call ("set": set_text or set_style,
\* "relayout": a layout at a new width over a cached one, "reused": a layout
\* at the width of the cached one, "activate": an event that activated the
\* focused hyperlink, "focus" and "unfocus", "render": a render
\* that returned, "render_after_dismiss": the first such render after a
\* dismiss event ended the reveal, "refused": a dismiss event during a reveal
\* the style does not let abort); calls is the number of times the slow_done
\* callback was called, called whether the last call called it; length is
\* the length the last render handed to render_pass, covered whether that
\* length covered all of the laid-out content; revealing tells that the
\* last render was slow and only layouts and ticks of the clock came since;
\* dismissed that a dismiss event ended the reveal and no render returned
\* since; returned is what the last call returned if it was Text.event
\* ("True", "False", "None", "IgnoreEvent" for the exception, "callback"
\* for the value of the hyperlink callback), "-" otherwise; completed is
\* the time of the first render since the text or the style was set that
\* drew all of the content, None before it.
NewHist ==
    [last |-> "init", calls |-> 0, called |-> FALSE, length |-> 0,
     covered |-> FALSE, revealing |-> FALSE, dismissed |-> FALSE,
     returned |-> "-", completed |-> None]

Init ==
    /\ arg \in CtorArgs
    /\ env \in [styles_built : BOOLEAN, focused : {FALSE},
                focus_argument : {None}, st : {0}]
    /\ \E text \in Texts, style \in Styles :
           self = Construct(text, arg.slow, arg.slow_done, arg.slow_start,
                            arg.pause, style, env.styles_built)
    /\ hist = NewHist
    /\ res = [done |-> TRUE]

\* A call that is not a render tick ends the run of render ticks.
Called(name) ==
    [hist EXCEPT !.last = name, !.revealing = FALSE, !.called = FALSE,
                 !.covered = FALSE, !.length = 0, !.returned = "-"]

\* Text.event returned value (or raised it).
Returned(name, value) == [Called(name) EXCEPT !.returned = value]

\* renpy.style.styles_built becomes true once, when the styles are built.
BuildStyles ==
    /\ ~env.styles_built
    /\ env' = [env EXCEPT !.styles_built = TRUE]
    /\ UNCHANGED <<self, hist, arg, res>>

\* The clock of the host moves on.
Tick ==
    /\ env.st < MaxTime
    /\ env' = [env EXCEPT !.st = @ + 1]
    /\ UNCHANGED <<self, hist, arg, res>>

SetText(new_text) ==
    /\ self' = update([self EXCEPT !.text = new_text], env.styles_built)
    /\ hist' = [Called("set") EXCEPT !.completed = None]
    /\ UNCHANGED <<env, arg, res>>

SetStyle(style) ==
    /\ self' = update([self EXCEPT !.style = style], env.styles_built)
    /\ hist' = [Called("set") EXCEPT !.completed = None]
    /\ UNCHANGED <<env, arg, res>>

Update ==
    /\ self' = update(self, env.styles_built)
    /\ hist' = Called("other")
    /\ UNCHANGED <<env, arg, res>>

Layout(width) ==
    /\ self' = layout(self, width, env.styles_built, env.focus_argument).t
    /\ hist' = [hist EXCEPT
                  !.last = IF self.laidout # <<>> /\ self.width # width
                           THEN "relayout"
                           ELSE IF self.laidout # <<>> THEN "reused"
                           ELSE "other",
                  !.called = FALSE, !.covered = FALSE, !.returned = "-"]
    /\ UNCHANGED <<env, arg, res>>

\* Text.render once the layout is done: t is the Text then, length the
\* length it hands to render_pass, revealing whether the text is slow, all
\* the result of the last render_pass.
RenderEnd(t, length, revealing, all) ==
    [t |-> IF all /\ t.slow THEN call_slow_done(t, env.st) ELSE t,
     called |-> all /\ CallsBack(t),
     all |-> all, length |-> length, revealing |-> revealing]

RenderPasses(t, length, revealing) ==
    RenderEnd(t, length, revealing, render_pass(t, length))

\* Text.render from the call of self.layout on; r is the result of that
\* call, speed the speed computed before it.
RenderLaidOut(r, speed) ==
    IF r.error # "none" THEN [error |-> r.error, t |-> r.t]
    ELSE IF r.t.slow /\ speed # None /\ speed # 0
    THEN [error |-> "none",
          o |-> RenderPasses(r.t, RenderLength(r.t, speed, env.st), TRUE),
          called |-> FALSE]
    ELSE [error |-> "none",
          o |-> RenderPasses(call_slow_done(r.t, env.st), MaxInt, FALSE),
          called |-> CallsBack(r.t)]

RenderDone(d) ==
    IF d.error # "none"
    THEN /\ self' = d.t
         /\ hist' = Called("other")
         /\ UNCHANGED <<env, arg, res>>
    ELSE /\ self' = d.o.t
         /\ hist' = [hist EXCEPT
                       !.last = IF hist.dismissed
                                THEN "render_after_dismiss" ELSE "render",
                       !.calls = IF d.called \/ d.o.called THEN @ + 1 ELSE @,
                       !.called = d.called \/ d.o.called,
                       !.length = d.o.length,
                       !.covered = d.o.all,
                       !.revealing = d.o.revealing,
                       !.dismissed = FALSE,
                       !.returned = "-",
                       !.completed = IF @ = None /\ d.o.all THEN env.st ELSE @]
         /\ UNCHANGED <<env, arg, res>>

Render(width) ==
    RenderDone(RenderLaidOut(layout(self, width, env.styles_built,
                                    env.focus_argument),
                             RenderSpeed(self, text_cps, less_updates)))

Event(ev) ==
    LET st == env.st
        name == IF self.slow /\ ev = "dismiss" THEN "refused" ELSE "other"
    IN  /\ UNCHANGED <<env, arg, res>>
        /\ IF /\ self.slow_done_time # None
              /\ self.pause_length # None
              /\ st > self.slow_done_time + self.pause_length
           THEN self' = self /\ hist' = Returned("other", "True")
           ELSE IF self.slow /\ self.style.slow_abortable /\ ev = "dismiss"
           THEN /\ self' = [self EXCEPT !.slow = FALSE]
                /\ hist' = [Returned("other", "IgnoreEvent") EXCEPT !.dismissed = TRUE]
           ELSE IF self.tokens = <<>>
           THEN self' = self /\ hist' = Returned(name, "None")
           ELSE IF self.no_wait_done
           THEN self' = self /\ hist' = Returned(name, "False")
           ELSE IF env.focused /\ ev = "button_select"
           THEN /\ self' = [self EXCEPT
                              !.activated =
                                  ~(env.focus_argument < Len(self.laidout_hyperlinks)),
                              !.laidout = <<>>]
                /\ hist' = Returned("activate", "callback")
           ELSE self' = self /\ hist' = Returned(name, "None")

\* The focus system gives the focus to a hyperlink the Text has drawn, and
\* calls Text.focus.
Focus(k) ==
    /\ ~env.focused
    /\ self.laidout # <<>>
    /\ k < Len(self.laidout_hyperlinks)
    /\ env' = [env EXCEPT !.focused = TRUE, !.focus_argument = k]
    /\ self' = [self EXCEPT !.laidout = <<>>]
    /\ hist' = Called("focus")
    /\ UNCHANGED <<arg, res>>

\* Text.unfocus that keeps the cached layout.
UnfocusKeeping ==
    /\ env.focused
    /\ env' = [env EXCEPT !.focused = FALSE, !.focus_argument = None]
    /\ self' = self
    /\ hist' = Called("unfocus")
    /\ UNCHANGED <<arg, res>>

\* The focus leaves the Text: Text.unfocus.
Unfocus ==
    /\ env.focused
    /\ env' = [env EXCEPT !.focused = FALSE, !.focus_argument = None]
    /\ self' = [self EXCEPT !.laidout = <<>>]
    /\ hist' = Called("unfocus")
    /\ UNCHANGED <<arg, res>>

Next ==
    \/ BuildStyles
    \/ Tick
    \/ \E t \in Texts : SetText(t)
    \/ \E y \in Styles : SetStyle(y)
    \/ Update
    \/ \E w \in Widths : Layout(w)
    \/ \E w \in Widths : Render(w)
    \/ \E ev \in Events : Event(ev)

Spec == Init /\ [][Next]_vars

\* The fields of the reveal state of a Text.
RevealFields(t) ==
    [slow |-> t.slow, slow_done |-> t.slow_done,
     slow_done_time |-> t.slow_done_time, pauses |-> t.pauses,
     pause_lengths |-> t.pause_lengths, pause_length |-> t.pause_length,
     keep_pausing |-> t.keep_pausing, no_wait |-> t.no_wait,
     no_wait_once |-> t.no_wait_once, no_wait_done |-> t.no_wait_done]

\* u is t but for the width and the laidout_* fields.
SameButGeometry(t, u) ==
    u = [t EXCEPT !.width = u.width, !.laidout = u.laidout,
                  !.laidout_styles = u.laidout_styles,
                  !.laidout_lineheights = u.laidout_lineheights,
                  !.laidout_linewidths = u.laidout_linewidths,
                  !.laidout_length = u.laidout_length,
                  !.laidout_start = u.laidout_start,
                  !.laidout_width = u.laidout_width,
                  !.laidout_height = u.laidout_height,
                  !.laidout_hyperlinks = u.laidout_hyperlinks,
                  !.laidout_lines_last = u.laidout_lines_last]

RenderReturned == hist.last \in {"render", "render_after_dismiss"}

RevealEnabled == arg.slow \in {"None", "True"}

\* C1: after a dismiss event ended an abortable reveal, the next render
\* hands the unbounded length to the render pass and calls the slow_done
\* callback; a dismiss event during a reveal whose style is not
\* slow_abortable leaves the reveal in progress.
C1_DismissCompletesReveal ==
    /\ hist.last = "render_after_dismiss"
           => hist.length = MaxInt /\ (arg.slow_done => hist.called)
    /\ hist.last = "refused" => self.slow

\* C2: for a Text constructed with the reveal enabled and a slow_done
\* callback, the callback is called exactly once: never twice, only by a
\* render whose length covers the whole laid-out content, and it has been
\* called once a render covered the whole content.
C2_CallbackExactlyOnce ==
    RevealEnabled /\ arg.slow_done =>
        /\ hist.calls <= 1
        /\ hist.called => RenderReturned /\ hist.covered
        /\ RenderReturned /\ hist.covered => hist.calls = 1

\* The pause bookkeeping a text implies: the pause tags and the nw tags
\* after the last fast tag of the text.
TokensOf(text) == text_tokenizer(IF text # <<>> THEN text ELSE <<" ">>)

IsTag(tok, name) == tok.kind = "tag" /\ tok.text = name

LastFast(tokens) ==
    LET F == {k \in 1..Len(tokens) : IsTag(tokens[k], <<"f", "a", "s", "t">>)}
    IN  IF F = {} THEN 0 ELSE CHOOSE k \in F : \A j \in F : j <= k

IsPauseTag(tok) ==
    /\ tok.kind = "tag"
    /\ \/ tok.text \in {<<"w">>, <<"p">>}
       \/ StartsWith(tok.text, <<"w", "=">>)
       \/ StartsWith(tok.text, <<"p", "=">>)

PauseLengthOf(tok) ==
    IF Len(tok.text) = 1 THEN None ELSE DecVal(SubSeq(tok.text, 3, Len(tok.text)))

RECURSIVE PauseLengthsFrom(_, _)
PauseLengthsFrom(tokens, k) ==
    IF k > Len(tokens) THEN <<>>
    ELSE IF IsPauseTag(tokens[k])
         THEN <<PauseLengthOf(tokens[k])>> \o PauseLengthsFrom(tokens, k + 1)
         ELSE PauseLengthsFrom(tokens, k + 1)

PauseLengthsOf(tokens) == PauseLengthsFrom(tokens, LastFast(tokens) + 1)

NoWaitOf(tokens) ==
    \E k \in (LastFast(tokens) + 1)..Len(tokens) : IsTag(tokens[k], <<"n", "w">>)

C4_RelayoutKeepsRevealState ==
    [][hist'.last = "relayout" /\ env' = env =>
          /\ RevealFields(self') = RevealFields(self)
          /\ SameButGeometry(self, self')]_vars

\* A layout at a new width of a Text whose reveal is complete, with pauses
\* and the no_wait_done flag set.
C4_Witness ==
    /\ hist.last = "relayout"
    /\ self.slow_done_time # None
    /\ self.no_wait_done
    /\ self.pauses > 0
    /\ self.width = 6

\* C5: from one slow render tick to the next, with only layouts and ticks
\* of the clock in between, the length handed to the render pass does not
\* decrease.
C5_RevealedLengthNonDecreasing ==
    [][hist.revealing /\ hist'.revealing => hist'.length >= hist.length]_vars

\* The tokens with every p tag written as a w tag and a newline.
RECURSIVE RewriteP(_)
RewriteP(tokens) ==
    IF tokens = <<>> THEN <<>>
    ELSE LET tok == tokens[1]
         IN  (IF IsTag(tok, <<"p">>)
                  THEN <<Token("tag", <<"w">>), Token("newline", <<"\n">>)>>
              ELSE IF tok.kind = "tag" /\ StartsWith(tok.text, <<"p", "=">>)
                  THEN <<Token("tag", <<"w">> \o Tail(tok.text)),
                         Token("newline", <<"\n">>)>>
              ELSE <<tok>>) \o RewriteP(Tail(tokens))

\* The place of the first nw tag after the last fast tag, 0 if there is none.
FirstNoWait(tokens) ==
    LET N == {k \in (LastFast(tokens) + 1)..Len(tokens) : IsTag(tokens[k], <<"n", "w">>)}
    IN  IF N = {} THEN 0 ELSE CHOOSE k \in N : \A j \in N : k <= j

\* The place of the tag of the k-th pause (from 0) after the last fast
\* tag, 0 if there are not that many.
RECURSIVE PauseTagAt(_, _, _)
PauseTagAt(tokens, from, k) ==
    IF from > Len(tokens) THEN 0
    ELSE IF IsPauseTag(tokens[from])
         THEN IF k = 0 THEN from ELSE PauseTagAt(tokens, from + 1, k - 1)
         ELSE PauseTagAt(tokens, from + 1, k)

\* The place where the pause index cuts the tokens of the text, 0 if it
\* cuts at no pause tag: the index is given, there are that many pauses
\* after the last fast tag, and no nw tag comes first.
CutPause(text, pause) ==
    LET tokens == TokensOf(text)
        at == IF pause = None THEN 0
              ELSE PauseTagAt(tokens, LastFast(tokens) + 1, pause)
        nw == FirstNoWait(tokens)
    IN  IF nw # 0 /\ nw < at THEN 0 ELSE at

\* The content of the Text ends at a timed pause.
EndsAtTimedPause(t) ==
    /\ CutPause(t.text, t.pause) # 0
    /\ PauseLengthOf(TokensOf(t.text)[CutPause(t.text, t.pause)]) # None

PauseDuration(t) == PauseLengthOf(TokensOf(t.text)[CutPause(t.text, t.pause)])

\* A step of Text.event.
EventStep == hist'.returned # "-" /\ env' = env

\* C25: once all of a content that ends at a timed pause of duration d has
\* been drawn, at the time hist.completed, Text.event returns True for the
\* events later than that time plus d and for no other event.
C25_TimedPauseResumes ==
    [][(EventStep /\ hist.completed # None /\ EndsAtTimedPause(self))
           => ((hist'.returned = "True")
                   <=> (env.st > hist.completed + PauseDuration(self)))]_vars

\* C26: when the reveal is enabled and an nw tag follows the last fast tag
\* of the text, the tokens kept are those before that nw tag (unless a
\* pause cut them earlier), and once all of the content has been drawn
\* Text.event returns False.
C26_NoWaitEndsContent ==
    [][(EventStep /\ hist.completed # None /\ RevealEnabled
            /\ FirstNoWait(TokensOf(self.text)) # 0
            /\ CutPause(self.text, self.pause) = 0)
           => /\ hist'.returned = "False"
              /\ self.tokens = <<RewriteP(SubSeq(TokensOf(self.text), 1,
                                     FirstNoWait(TokensOf(self.text)) - 1))>>]_vars

\* ------------------------------------------------------------------------
\* SpecCheck: check_text_tags applied to every tagged string of at most
\* MaxPieces pieces, and to every single corruption of a properly nested one.
\* ------------------------------------------------------------------------
CheckInit ==
    /\ \E q \in SeqsUpTo(Pieces, MaxPieces) : arg \in CheckInputs(q)
    /\ res = [done |-> FALSE, val |-> NoDiag]
    /\ self = NoText /\ env = NoEnv /\ hist = NoHist

CheckStep ==
    /\ ~res.done
    /\ res' = [done |-> TRUE, val |-> check_text_tags(arg.s)]
    /\ UNCHANGED <<self, env, hist, arg>>

SpecCheck == CheckInit /\ [][CheckStep]_vars

\* C7: check_text_tags returns None for every string whose tags are known and
\* properly nested and closed, and a diagnostic for every single corruption
\* of such a string (one close tag dropped, one close tag renamed, one
\* unknown tag added).
C7_ValidatorAcceptsAndRejects ==
    res.done =>
        /\ (arg.corr.c = "none" /\ WellNested(arg.base)) => res.val = NoDiag
        /\ arg.corr.c # "none" => res.val # NoDiag

C7_Witness ==
    /\ res.done
    /\ arg.corr.c = "drop"
    /\ Len(arg.base) = MaxPieces
    /\ arg.base[1].k = "open" /\ arg.base[2].k = "open"
    /\ arg.corr.at = 3
    /\ res.val.diag = "close_mismatch"

\* C10 (as amended): when the input has no earlier error and ends with tags
\* still open, the diagnostic names exactly the tags still open, in the
\* order they were opened (outermost first).
C10_LeftOpenOutermostFirst ==
    (res.done /\ arg.corr.c = "none" /\ HasOpenChain(arg.base)) =>
        res.val = Diag("left_open", OpenAtEnd(arg.base))

C10_Witness ==
    /\ res.done
    /\ arg.corr.c = "none"
    /\ HasOpenChain(arg.base)
    /\ Len(OpenAtEnd(arg.base)) >= 2
    /\ OpenAtEnd(arg.base)[1] # OpenAtEnd(arg.base)[2]
    /\ res.val.diag = "left_open"

\* C10 as claimed: the tags still open are listed innermost first.
C10_LeftOpenInnermostFirst ==
    (res.done /\ arg.corr.c = "none" /\ HasOpenChain(arg.base)) =>
        res.val = Diag("left_open", Reverse(OpenAtEnd(arg.base)))

\* ------------------------------------------------------------------------
\* SpecLayout: one layout pass (tag machine, line breaker, runs) over every
\* token list the tokenizer yields for a string of at most MaxLayoutPieces
\* pieces, at a narrow and a wide width, with and without a focused link.
\* ------------------------------------------------------------------------
LayoutPieces ==
    {WordPiece, Piece("word", <<" ">>, <<>>),
     Piece("self", <<"f", "a", "s", "t">>, <<>>),
     Piece("open", <<"b">>, <<>>), Piece("open", <<"a">>, <<"t">>),
     Piece("open", <<"s", "i", "z", "e">>, <<"2">>),
     Piece("close", <<"b">>, <<>>), Piece("close", <<"a">>, <<>>),
     Piece("self", <<"q">>, <<>>)}

LayoutWidths == {2, 6}

NoFocus == None

LayoutInputs(q) ==
    {[base |-> q, tokens |-> text_tokenizer(Chars(q)), width |-> w,
      focus_argument |-> f, activated |-> (f # NoFocus /\ w = 2)] :
        w \in LayoutWidths, f \in {NoFocus, 0}}

LayoutInit ==
    /\ \E q \in SeqsUpTo(LayoutPieces, MaxLayoutPieces) : arg \in LayoutInputs(q)
    /\ res = [done |-> FALSE]
    /\ self = NoText /\ env = NoEnv /\ hist = NoHist

LayoutStep ==
    /\ ~res.done
    /\ res' = [done |-> TRUE,
               val |-> LayoutPass(arg.tokens, arg.width, WidgetStyleProps,
                                  arg.focus_argument, arg.activated)]
    /\ UNCHANGED <<self, env, hist, arg>>

SpecLayout == LayoutInit /\ [][LayoutStep]_vars

\* The names of the scopes open after the first k tokens, outermost first,
\* read off the token list: a close tag ends the innermost scope, the tags
\* w, w=, nw and fast open none, every other tag opens one.
IsCloseTag(tok) == tok.kind = "tag" /\ tok.text[1] = "/"

IsScopeTag(tok) ==
    /\ tok.kind = "tag"
    /\ tok.text[1] # "/"
    /\ StripArgs(tok.text) \notin {<<"w">>, <<"n", "w">>, <<"f", "a", "s", "t">>}

RECURSIVE ScopeNames(_, _)
ScopeNames(tokens, k) ==
    IF k = 0 THEN <<>>
    ELSE LET before == ScopeNames(tokens, k - 1)
         IN  IF IsCloseTag(tokens[k])
                 THEN SubSeq(before, 1, Len(before) - 1)
             ELSE IF IsScopeTag(tokens[k])
                 THEN Append(before, StripArgs(tokens[k].text))
             ELSE before

\* Some close tag /NAME ends a scope opened by a tag of another name.
ClosesWrongScope(tokens) ==
    \E k \in 1..Len(tokens) :
        /\ IsCloseTag(tokens[k])
        /\ ScopeNames(tokens, k - 1) # <<>>
        /\ ScopeNames(tokens, k - 1)[Len(ScopeNames(tokens, k - 1))]
               # Tail(StripArgs(tokens[k].text))

\* C8: a close tag pops exactly one scope, and the pass fails whenever the
\* name of a close tag differs from the name of the opening tag of the scope
\* it pops.
C8_MismatchedCloseFails ==
    (res.done /\ ClosesWrongScope(arg.tokens)) => res.val.error # "none"

\* C9: when the tokens end with the style stack deeper than the root, the
\* pass fails with an error instead of producing a layout.
C9_LeftOpenFails ==
    (res.done /\ Len(res.val.machine.tsl) > 1) => res.val.error # "none"

\* The lines at the end of a layout that hold no run of a text or widget
\* style (a line made of start markers only).
RECURSIVE TrailingRunless(_)
TrailingRunless(laidout) ==
    IF laidout = <<>> THEN 0
    ELSE IF \A r \in 1..Len(laidout[Len(laidout)]) :
                laidout[Len(laidout)][r].ts = SpacerId
        THEN 1 + TrailingRunless(SubSeq(laidout, 1, Len(laidout) - 1))
    ELSE 0

\* C33 as claimed: render_pass reports that everything was rendered exactly
\* when the length it is given is at least laidout_length.
C33_AllRenderedIffLengthCovers ==
    (res.done /\ res.val.error = "none") =>
        \A n \in 0..(res.val.laidout_length + 1) :
            RenderLines(res.val.machine.styles, res.val.laidout, 1, n)
                <=> n >= res.val.laidout_length

\* C33: render_pass reports that everything was rendered exactly when the
\* length it is given is at least laidout_length less the number of lines
\* at the end of the layout that hold no run.
C33_AllRenderedIffRunsCovered ==
    (res.done /\ res.val.error = "none") =>
        \A n \in 0..(res.val.laidout_length + 1) :
            RenderLines(res.val.machine.styles, res.val.laidout, 1, n)
                <=> n >= res.val.laidout_length - TrailingRunless(res.val.laidout)

\* A layout of two lines whose last line holds a run: a length one short of
\* laidout_length stops the pass, laidout_length does not.
C33_Witness ==
    /\ res.done /\ res.val.error = "none"
    /\ Len(res.val.laidout) = 2
    /\ TrailingRunless(res.val.laidout) = 0
    /\ res.val.laidout_start > 0
    /\ ~RenderLines(res.val.machine.styles, res.val.laidout, 1,
                    res.val.laidout_length - 1)
    /\ RenderLines(res.val.machine.styles, res.val.laidout, 1,
                   res.val.laidout_length)

\* ------------------------------------------------------------------------
\* SpecTokens: text_tokenizer (western) applied to every string of at most
\* MaxChars characters over a letter, the two spaces, the newline and the
\* braces.
\* ------------------------------------------------------------------------
TokenChars == {"x", " ", "z", "\n", "{", "}"}

TokensInit ==
    /\ arg \in SeqsUpTo(TokenChars, MaxChars)
    /\ res = [done |-> FALSE, tokens |-> <<>>, matches |-> <<>>]
    /\ self = NoText /\ env = NoEnv /\ hist = NoHist

TokensStep ==
    /\ ~res.done
    /\ res' = [done |-> TRUE, tokens |-> text_tokenizer(arg),
               matches |-> MatchesFrom(arg, 1)]
    /\ UNCHANGED <<self, env, hist, arg>>

SpecTokens == TokensInit /\ [][TokensStep]_vars

\* The payloads of the tokens, concatenated in order.
Payloads(tokens) == Concat([k \in 1..Len(tokens) |-> tokens[k].text])

IsBrace(c) == c \in {"{", "}"}

NotBrace(c) == ~IsBrace(c)

\* a is b with some of its braces deleted.
RECURSIVE BracesDeleted(_, _)
BracesDeleted(a, b) ==
    IF a = <<>> THEN \A k \in 1..Len(b) : IsBrace(b[k])
    ELSE IF b = <<>> THEN FALSE
    ELSE IF a[1] = b[1] /\ BracesDeleted(Tail(a), Tail(b)) THEN TRUE
    ELSE IsBrace(b[1]) /\ BracesDeleted(a, Tail(b))

\* C12 (as stated): the payloads of the tokens, concatenated in order, are
\* the input string.
C12_PayloadsAreInput == res.done => Payloads(res.tokens) = arg

\* C12 (amended): the payloads of the tokens, concatenated in order, are
\* the input string with some of its braces deleted, and the input string
\* itself when it has no opening brace; the payload of a tag holds no
\* brace, and with a tag among the tokens the payloads are at least two
\* characters shorter than the input.
C12_PayloadsAreInputLessBraces ==
    res.done =>
        /\ BracesDeleted(Payloads(res.tokens), arg)
        /\ (\A k \in 1..Len(arg) : arg[k] # "{") => Payloads(res.tokens) = arg
        /\ \A k \in 1..Len(res.tokens) :
               res.tokens[k].kind = "tag" =>
                   /\ \A n \in 1..Len(res.tokens[k].text) :
                          NotBrace(res.tokens[k].text[n])
                   /\ Len(Payloads(res.tokens)) <= Len(arg) - 2

\* A string with a tag, an escaped brace and a word around them.
C12_Witness ==
    /\ res.done
    /\ \E k \in 1..Len(res.tokens) : res.tokens[k].kind = "tag"
    /\ Payloads(res.tokens) = <<"{", "x">>

\* C13: the spans of the matches the tokens are made from cover the input
\* string in order, without a gap and without an overlap.
C13_SpansCoverInput ==
    res.done =>
        /\ Len(res.matches) = Len(res.tokens)
        /\ \A k \in 1..Len(res.matches) :
               /\ res.matches[k].from <= res.matches[k].to
               /\ res.matches[k].from =
                      IF k = 1 THEN 1 ELSE res.matches[k - 1].to + 1
        /\ arg # <<>> =>
               /\ res.matches # <<>>
               /\ res.matches[Len(res.matches)].to = Len(arg)

\* ------------------------------------------------------------------------
\* SpecTags: the tag loop of Text.layout, one token a step, over the tokens
\* of every string of at most MaxLayoutPieces pieces.  res holds the number k
\* of the next token, the stack, triples and table L after the tokens before
\* it, and the depth the stack had before the last token.
\* ------------------------------------------------------------------------
TagsInit ==
    /\ \E q \in SeqsUpTo(LayoutPieces, MaxLayoutPieces) :
           arg = [base |-> q, tokens |-> text_tokenizer(Chars(q))]
    /\ res = [k |-> 1, L |-> TagStart(WidgetStyleProps), before |-> 1]
    /\ self = NoText /\ env = NoEnv /\ hist = NoHist

TagsStep ==
    /\ res.k <= Len(arg.tokens)
    /\ res.L.error = "none"
    /\ res' = [k |-> res.k + 1,
               L |-> LayoutToken(res.L, arg.tokens[res.k], NoFocus, FALSE),
               before |-> Len(res.L.tsl)]
    /\ UNCHANGED <<self, env, hist, arg>>

SpecTags == TagsInit /\ [][TagsStep]_vars

\* C11: while the tag loop runs without error the style stack holds the
\* root style at its bottom, every triple carries a style of the pass, and
\* a close tag met at root depth ends the pass with the error of a close
\* tag without an open tag.
C11_RootStyleStays ==
    /\ res.L.error = "none" => Len(res.L.tsl) >= 1 /\ res.L.tsl[1] = 1
    /\ \A n \in 1..Len(res.L.triples) :
           res.L.triples[n].ts \in 1..Len(res.L.styles)
    /\ (res.k > 1 /\ IsCloseTag(arg.tokens[res.k - 1]) /\ res.before = 1)
           => res.L.error = "close_no_open"

\* A close tag met at root depth after a triple was appended.
C11_Witness ==
    /\ res.k > 1
    /\ IsCloseTag(arg.tokens[res.k - 1])
    /\ res.before = 1
    /\ res.L.error = "close_no_open"
    /\ Len(res.L.triples) > 0

\* The token that opened the scope a close tag at position c ends: the last
\* scope tag before c met at the depth the stack has after c.
MatchingOpen(tokens, c) ==
    LET opens == {p \in 1..(c - 1) :
                     /\ IsScopeTag(tokens[p])
                     /\ Len(ScopeNames(tokens, p - 1)) = Len(ScopeNames(tokens, c))}
    IN  CHOOSE p \in opens : \A o \in opens : o <= p

\* C31: the step of an opening scoped tag leaves every style object that
\* existed before it, on the stack or in a triple, with the attributes it
\* had, and leaves the stack below the new top and the triples as they
\* were; the step of a close tag that does not fail makes the style that
\* was active before the matching opening tag active again, with the
\* attributes it had then.
C31_OpenTagKeepsStyles ==
    [][LET tok == arg.tokens[res.k]
       IN  /\ IsScopeTag(tok) =>
                  /\ \A j \in 1..Len(res.L.styles) :
                         res'.L.styles[j] = res.L.styles[j]
                  /\ SubSeq(res'.L.tsl, 1, Len(res.L.tsl)) = res.L.tsl
                  /\ res'.L.triples = res.L.triples
           /\ (IsCloseTag(tok) /\ res'.L.error = "none") =>
                  LET B == TagMachine(SubSeq(arg.tokens, 1,
                                          MatchingOpen(arg.tokens, res.k) - 1),
                                      WidgetStyleProps, NoFocus, FALSE)
                  IN  /\ Top(res'.L) = Top(B)
                      /\ res'.L.styles[Top(res'.L)] = B.styles[Top(B)]]_vars

\* x{b}x{/b}: a word in the root style, a word in a bold copy of it, and the
\* root style, not bold, active again after the close tag.
C31_Witness ==
    /\ res.k > Len(arg.tokens)
    /\ res.k > 1 /\ IsCloseTag(arg.tokens[res.k - 1])
    /\ res.L.error = "none"
    /\ Len(res.L.tsl) = 1
    /\ Len(res.L.triples) = 2
    /\ res.L.triples[1].ts = 1 /\ res.L.triples[2].ts = 2
    /\ res.L.styles[2].bold /\ ~res.L.styles[1].bold

\* ------------------------------------------------------------------------
\* SpecGreedy: greedy_text_layout applied to every sequence of at most
\* MaxTriples triples in two styles (font sizes 1 and 2), at two widths,
\* with and without indents and justification.
\* ------------------------------------------------------------------------
GreedyStyles ==
    <<TextStyle(DefaultFont, 1, FALSE, FALSE, FALSE, FALSE, NoColor, NoColor, NoLink),
      TextStyle(DefaultFont, 2, TRUE, FALSE, FALSE, FALSE, NoColor, NoColor, NoLink)>>

GreedyTriples ==
    {Triple("word", 1, <<"x">>), Triple("word", 1, <<"x", "x", "x">>),
     Triple("word", 2, <<"x", "x">>), Triple("space", 1, <<" ">>),
     Triple("newline", 1, <<>>)}

GreedyInputs(t) ==
    {[triples |-> t, width |-> w,
      style |-> [WidgetStyleProps EXCEPT !.first_indent = ind[1],
                                         !.rest_indent = ind[2],
                                         !.justify = j]] :
        w \in {3, 4}, ind \in {<<0, 0>>, <<1, 0>>, <<0, 1>>}, j \in BOOLEAN}

GreedyInit ==
    /\ \E t \in SeqsUpTo(GreedyTriples, MaxTriples) : arg \in GreedyInputs(t)
    /\ res = [done |-> FALSE]
    /\ self = NoText /\ env = NoEnv /\ hist = NoHist

GreedyStep ==
    /\ ~res.done
    /\ res' = [done |-> TRUE,
               val |-> greedy_text_layout(GreedyStyles, arg.triples, arg.width,
                                          arg.style)]
    /\ UNCHANGED <<self, env, hist, arg>>

SpecGreedy == GreedyInit /\ [][GreedyStep]_vars

\* The target width of the k-th emitted line.
LineTarget(k) ==
    arg.width - (IF k = 1 THEN arg.style.first_indent ELSE arg.style.rest_indent)

BeginsWithSpace(line) == line # <<>> /\ line[1].type = "space"

EndsWithSpace(line) == line # <<>> /\ line[Len(line)].type = "space"

RECURSIVE Accounts(_, _, _)
Accounts(inp, lines, flags) ==
    LET l == Head(lines)
        n == Len(l)
        rest == SubSeq(inp, n + 1, Len(inp))
    IN  /\ n <= Len(inp)
        /\ SubSeq(inp, 1, n) = l
        /\ \A k \in 1..n : l[k].type # "newline"
        /\ IF Len(lines) = 1
           THEN rest = <<>> /\ Head(flags)
           ELSE \E r \in {rest} \cup (IF rest # <<>> /\ rest[1].type = "space"
                                      THEN {Tail(rest)} ELSE {}) :
                    /\ r # <<>>
                    /\ IF Head(flags)
                       THEN /\ r[1].type = "newline"
                            /\ Accounts(Tail(r), Tail(lines), Tail(flags))
                       ELSE /\ r[1].type # "newline"
                            /\ Accounts(r, Tail(lines), Tail(flags))

C23_NonLastLinesEndTrimmed ==
    res.done =>
        \A k \in 1..(Len(res.val.lines) - 1) : ~EndsWithSpace(res.val.lines[k])

\* C6: every line emitted with its is-last flag False is no wider than the
\* target width of that line, except a line made of a single triple that is
\* itself wider than the target.
C6_NonFinalLinesFit ==
    res.done =>
        \A k \in 1..Len(res.val.lines) :
            ~res.val.lines_last[k] =>
                \/ layout_width(GreedyStyles, res.val.lines[k], arg.style.justify)
                       <= LineTarget(k)
                \/ /\ Len(res.val.lines[k]) = 1
                   /\ layout_width(GreedyStyles, res.val.lines[k],
                                   arg.style.justify) > LineTarget(k)

\* ------------------------------------------------------------------------
\* SpecSubtitle: subtitle_text_layout applied to every sequence of at most
\* MaxTriples triples, at two widths and three subtitle widths, one paragraph
\* and one pass of its retry loop a step.  The retry loop is followed up to
\* MaxRetry lines.  res holds the paragraphs, the number p of the current
\* one, its triples after the split of wide words, their width, the first
\* and the current line count i, the lines and flags built so far, and the
\* numbers of the last lines of the paragraphs done.
\* ------------------------------------------------------------------------
SubtitleTriples ==
    {Triple("word", 1, <<"x">>), Triple("word", 1, <<"x", "x", "x", "x">>),
     Triple("word", 2, <<"x">>), Triple("space", 1, <<" ">>),
     Triple("newline", 1, <<>>)}

SubtitleInputs(t) ==
    {[triples |-> t, width |-> w, style |-> [justify |-> j, subtitle_width |-> sw]] :
        w \in {3, 6}, j \in BOOLEAN,
        sw \in {SubtitleWidth(FALSE, 1, 1), SubtitleWidth(FALSE, 4, 1),
                SubtitleWidth(TRUE, 1, 2)}}

SubtitleInit ==
    /\ \E t \in SeqsUpTo(SubtitleTriples, MaxTriples) : arg \in SubtitleInputs(t)
    /\ res = [stage |-> "par", pars |-> Paragraphs(arg.triples, 1, <<<<>>>>),
              p |-> 1, triples |-> <<>>, sumwidths |-> 0, first |-> 0, i |-> 0,
              lines |-> <<>>, lines_last |-> <<>>, ends |-> {}]
    /\ self = NoText /\ env = NoEnv /\ hist = NoHist

\* The start of the loop body "for triples in pars", newtriples being the
\* triples after the split.
SubtitleStart(newtriples, sumwidths) ==
    [res EXCEPT !.stage = "retry", !.triples = newtriples,
                !.sumwidths = sumwidths,
                !.first = SubtitleEstimate(sumwidths,
                              Min(arg.width, SoftWidth(arg.style, arg.width)), 1),
                !.i = SubtitleEstimate(sumwidths,
                          Min(arg.width, SoftWidth(arg.style, arg.width)), 1)]

SubtitleSum(newtriples) ==
    SubtitleStart(newtriples,
                  layout_width(GreedyStyles, newtriples, arg.style.justify))

SubtitleParagraph ==
    /\ res.stage = "par"
    /\ res.p <= Len(res.pars)
    /\ res' = SubtitleSum(SplitWide(GreedyStyles, res.pars[res.p], arg.width,
                                    arg.style.justify))
    /\ UNCHANGED <<self, env, hist, arg>>

\* One pass of "while True", rv being what the core returned.
SubtitleTried(rv) ==
    IF Len(rv) = res.i
    THEN [res EXCEPT !.stage = "par", !.p = @ + 1,
                     !.lines = @ \o rv,
                     !.lines_last = @ \o SubtitleFlags(res.lines \o rv),
                     !.ends = @ \cup {Len(res.lines \o rv)}]
    ELSE [res EXCEPT !.i = @ + 1]

SubtitleTry ==
    /\ res.stage = "retry"
    /\ res.i <= MaxRetry
    /\ res' = SubtitleTried(
                  subtitle_text_layout_core(GreedyStyles, res.triples, arg.width,
                      arg.style, FloorDiv(res.sumwidths, res.i), res.i,
                      arg.style.justify))
    /\ UNCHANGED <<self, env, hist, arg>>

SubtitleReturn ==
    /\ res.stage = "par"
    /\ res.p > Len(res.pars)
    /\ res' = [res EXCEPT !.stage = "done"]
    /\ UNCHANGED <<self, env, hist, arg>>

SubtitleNext == SubtitleParagraph \/ SubtitleTry \/ SubtitleReturn

SpecSubtitle == SubtitleInit /\ [][SubtitleNext]_vars

\* The core pass of the current paragraph with j lines.
CoreLines(j) ==
    subtitle_text_layout_core(GreedyStyles, res.triples, arg.width, arg.style,
        FloorDiv(res.sumwidths, j), j, arg.style.justify)

\* The number of lines there were before the paragraph just done.
LinesBefore ==
    LET E == {0} \cup (res.ends \ {Len(res.lines)})
    IN  CHOOSE e \in E : \A f \in E : f <= e

ParagraphDone == res.stage = "par" /\ res.p > 1

\* C14: the lines emitted for a paragraph are the i lines of the core pass
\* with i lines and budget sumwidths / i, where i is the smallest number,
\* from the first estimate on, for which the core pass returns i lines; the
\* first estimate is the smallest i with sumwidths / i at most min(width,
\* subtitle width).
C14_SmallestConvergingCount ==
    ParagraphDone =>
        /\ Len(res.lines) - LinesBefore = res.i
        /\ SubSeq(res.lines, LinesBefore + 1, Len(res.lines)) = CoreLines(res.i)
        /\ res.first <= res.i
        /\ \A j \in res.first..(res.i - 1) : Len(CoreLines(j)) # j
        /\ res.first >= 1
        /\ FloorDiv(res.sumwidths, res.first)
               <= Min(arg.width, SoftWidth(arg.style, arg.width))
        /\ \A j \in 1..(res.first - 1) :
               FloorDiv(res.sumwidths, j)
                   > Min(arg.width, SoftWidth(arg.style, arg.width))

\* The second paragraph is done after the loop tried more than one count,
\* starting from an estimate of more than one line.
C14_Witness ==
    /\ ParagraphDone
    /\ res.p = 3
    /\ res.first >= 2
    /\ res.i > res.first

\* C24: no line of the core pass begins or ends with a space triple.
C24_CoreLinesTrimmed ==
    \A k \in 1..Len(res.lines) :
        res.lines[k] # <<>> =>
            /\ res.lines[k][1].type # "space"
            /\ res.lines[k][Len(res.lines[k])].type # "space"

\* C21: the first estimate of a paragraph is the smallest positive i whose
\* exact quotient sumwidths / i is at most min(width, subtitle width), that
\* is the smallest i with sumwidths <= i * min(width, subtitle width).
C21_EstimateIsExactQuotient ==
    res.first >= 1 =>
        LET B == Min(arg.width, SoftWidth(arg.style, arg.width))
        IN  /\ res.sumwidths <= res.first * B
            /\ \A j \in 1..(res.first - 1) : res.sumwidths > j * B

\* C19: in the retry loop the line count i never exceeds the number of
\* triples of the paragraph (one, for a paragraph without triples).
C19_CountWithinContent ==
    res.stage = "retry" => res.i <= Max(Len(res.triples), 1)

\* C20: the flag list returned has one flag a line, true exactly at the
\* last line of each paragraph.
C20_OneFlagPerLine ==
    res.stage = "done" =>
        /\ Len(res.lines_last) = Len(res.lines)
        /\ \A k \in 1..Len(res.lines_last) : res.lines_last[k] = (k \in res.ends)

\* The lines emitted for the paragraph just done.
ParagraphLines == SubSeq(res.lines, LinesBefore + 1, Len(res.lines))

\* a is b with some of its space triples deleted.
RECURSIVE SpacesDeleted(_, _)
SpacesDeleted(a, b) ==
    IF a = <<>> THEN \A k \in 1..Len(b) : b[k].type = "space"
    ELSE IF b = <<>> THEN FALSE
    ELSE IF a[1] = b[1] /\ SpacesDeleted(Tail(a), Tail(b)) THEN TRUE
    ELSE b[1].type = "space" /\ SpacesDeleted(a, Tail(b))

\* C34: every line emitted for a paragraph that holds a word triple holds a
\* triple that is not a space, and the lines of the paragraph, in order,
\* are the triples of the paragraph with only space triples removed.
C34_NoEmptyLineNoLostTriple ==
    (ParagraphDone /\ \E k \in 1..Len(res.pars[res.p - 1]) :
                          res.pars[res.p - 1][k].type = "word") =>
        /\ \A k \in 1..Len(ParagraphLines) :
               \E n \in 1..Len(ParagraphLines[k]) :
                   ParagraphLines[k][n].type # "space"
        /\ SpacesDeleted(Concat(ParagraphLines), res.pars[res.p - 1])

\* ------------------------------------------------------------------------
\* The reordering of one laid-out line in right-to-left mode.  log2vis is
\* the binding of the bidi library: what it reports for a run is an input
\* here, one of the five directions for each text run.
\* ------------------------------------------------------------------------
MaxRuns == 3

Directions == {"ON", "LTR", "RTL", "WLTR", "WRTL"}

\* log2vis(i, direction): the text in visual order and the direction found.
log2vis(i, direction, report) ==
    [i |-> IF report \in {"RTL", "WRTL"} THEN Reverse(i) ELSE i,
     direction |-> report]

RtlReversesStrong(line_direction) == line_direction = "RTL"

RtlReverses(line_direction) == line_direction = "RTL" \/ line_direction = "WRTL"

\* The loop "for ts, i in line" of the reordering; a holds rtl_line and
\* line_direction.
RECURSIVE RtlLoop(_, _, _, _)
RtlLoop(styles, line, k, a) ==
    IF k > Len(line) THEN a
    ELSE LET ts == line[k].ts
             v == IF ts # SpacerId /\ styles[ts].kind = "text"
                  THEN log2vis(line[k].text, a.line_direction, line[k].report)
                  ELSE [i |-> line[k].text, direction |-> a.line_direction]
         IN  RtlLoop(styles, line, k + 1,
                 [rtl_line |-> Append(a.rtl_line, Run(ts, v.i)),
                  line_direction |-> v.direction])

RtlLine(rtl, styles, line) ==
    IF rtl
    THEN LET a == RtlLoop(styles, line, 1,
                      [rtl_line |-> <<>>, line_direction |-> "ON"])
         IN  IF RtlReverses(a.line_direction) THEN Reverse(a.rtl_line)
             ELSE a.rtl_line
    ELSE [k \in 1..Len(line) |-> Run(line[k].ts, line[k].text)]

BidiStyles ==
    <<TextStyle(DefaultFont, 1, FALSE, FALSE, FALSE, FALSE, NoColor, NoColor, NoLink),
      [kind |-> "widget", width |-> WidgetWidth, size |-> 1, hyperlink |-> NoLink]>>

BidiRuns ==
    {[ts |-> 1, text |-> t, report |-> d] : t \in {<<"a", "b">>, <<"c">>},
                                            d \in Directions}
    \cup {[ts |-> 2, text |-> <<"w">>, report |-> "ON"],
          [ts |-> SpacerId, text |-> <<>>, report |-> "ON"]}

BidiInit ==
    /\ \E l \in SeqsUpTo(BidiRuns, MaxRuns) : arg \in {[rtl |-> r, line |-> l] : r \in BOOLEAN}
    /\ res = [done |-> FALSE]
    /\ self = NoText /\ env = NoEnv /\ hist = NoHist

BidiStep ==
    /\ ~res.done
    /\ res' = [done |-> TRUE, line |-> RtlLine(arg.rtl, BidiStyles, arg.line)]
    /\ UNCHANGED <<self, env, hist, arg>>

SpecBidi == BidiInit /\ [][BidiStep]_vars

\* The text runs of the logical line.
TextRuns == {k \in 1..Len(arg.line) : arg.line[k].ts = 1}

ReportedRtl(k) == arg.line[k].report \in {"RTL", "WRTL"}

\* The emitted run at place k is the logical run at place j (its text as it
\* was or in visual order).
SameRun(k, j) ==
    /\ res.line[k].ts = arg.line[j].ts
    /\ res.line[k].text \in {arg.line[j].text, Reverse(arg.line[j].text)}

\* C15: in right-to-left mode a line with text runs that are all reported
\* RTL or WRTL is emitted in the exact reverse of its logical run order, the
\* non-text runs included; a line no text run of which is reported RTL or
\* WRTL, and every line when the mode is off, keeps its run order.
C15_ReversedOrUnchanged ==
    res.done =>
        /\ Len(res.line) = Len(arg.line)
        /\ (arg.rtl /\ TextRuns # {} /\ \A k \in TextRuns : ReportedRtl(k))
               => \A k \in 1..Len(res.line) : SameRun(k, Len(arg.line) + 1 - k)
        /\ (arg.rtl /\ \A k \in TextRuns : ~ReportedRtl(k))
               => \A k \in 1..Len(res.line) : SameRun(k, k)
        /\ ~arg.rtl
               => \A k \in 1..Len(res.line) :
                      res.line[k] = Run(arg.line[k].ts, arg.line[k].text)

\* A line of two different text runs around a widget, the last text run
\* reported WRTL and the first RTL, has been reordered.
C15_Witness ==
    /\ res.done
    /\ arg.rtl
    /\ Len(arg.line) = 3
    /\ arg.line[1] = [ts |-> 1, text |-> <<"a", "b">>, report |-> "RTL"]
    /\ arg.line[2].ts = 2
    /\ arg.line[3] = [ts |-> 1, text |-> <<"c">>, report |-> "WRTL"]
    /\ res.line[1] = Run(1, <<"c">>)
    /\ res.line[3] = Run(1, <<"b", "a">>)

\* ------------------------------------------------------------------------
\* SpecFocus: a Text with hyperlinks, laid out at two widths while the
\* focus comes to one of its hyperlinks and leaves it, the hyperlink is
\* activated, and the text and the style are set anew.
\* ------------------------------------------------------------------------
Str_nested_links == <<"{", "a", "=", "t", "}", "x", "{", "a", "=", "u", "}", "y", "{", "/", "a", "}", "x", "{", "/", "a", "}">>

Str_two_links == <<"{", "b", "}", "{", "a", "=", "u", "}", "x", "{", "/", "a", "}", "{", "/", "b", "}", " ", "{", "a", "=", "t", "}", "y", " ", "y", "{", "/", "a", "}">>

Str_no_link == <<"x">>

FocusTexts == {Str_nested_links, Str_two_links, Str_no_link}

MaxLinks == 2

FocusInit ==
    /\ arg = Ctor("False", TRUE, 0, None)
    /\ env \in [styles_built : BOOLEAN, focused : {FALSE},
                focus_argument : {None}, st : {0}]
    /\ \E text \in FocusTexts :
           self = Construct(text, arg.slow, arg.slow_done, arg.slow_start,
                            arg.pause, WidgetStyleProps, env.styles_built)
    /\ hist = NewHist
    /\ res = [done |-> TRUE]

FocusNext ==
    \/ BuildStyles
    \/ \E t \in FocusTexts : SetText(t)
    \/ \E y \in Styles : SetStyle(y)
    \/ Update
    \/ \E w \in Widths : Layout(w)
    \/ \E ev \in Events : Event(ev)
    \/ \E k \in 0..(MaxLinks - 1) : Focus(k)
    \/ Unfocus

SpecFocus == FocusInit /\ [][FocusNext]_vars

\* The a= tags among the tokens, read off the token list.
IsLinkTag(tok) == tok.kind = "tag" /\ StartsWith(tok.text, <<"a", "=">>)

LinkTagsBefore(tokens, p) == {k \in 1..(p - 1) : IsLinkTag(tokens[k])}

\* The targets of the a= tags among the first p tokens, in order.
RECURSIVE TargetsOf(_, _)
TargetsOf(tokens, p) ==
    IF p = 0 THEN <<>>
    ELSE IF IsLinkTag(tokens[p])
        THEN Append(TargetsOf(tokens, p - 1),
                    SubSeq(tokens[p].text, 3, Len(tokens[p].text)))
    ELSE TargetsOf(tokens, p - 1)

\* The place in the style table of the style the tag at p pushed: the root
\* is first, every tag that opens a scope adds one.
StylePushedAt(tokens, p) ==
    1 + Cardinality({k \in 1..p : IsScopeTag(tokens[k])})

\* The hyperlink indices carried by the runs of the layout.
RunLinks(t) ==
    UNION {{t.laidout_styles[t.laidout[l][r].ts].hyperlink :
               r \in {q \in 1..Len(t.laidout[l]) : t.laidout[l][q].ts # SpacerId}} :
           l \in 1..Len(t.laidout)}

\* C16: whenever the Text holds a layout, however many passes at whatever
\* widths and focus states came before, the k-th a= tag of its tokens
\* (from 0) has pushed a style of hyperlink index k, laidout_hyperlinks[k]
\* is the target of that tag and the table has no other entry, and every
\* hyperlink index carried by a run is an index of the table.
C16_LinkIndexIsTagOrder ==
    self.laidout # <<>> =>
        LET tokens == Concat(self.tokens)
        IN  /\ self.laidout_hyperlinks = TargetsOf(tokens, Len(tokens))
            /\ \A p \in 1..Len(tokens) :
                   IsLinkTag(tokens[p]) =>
                       self.laidout_styles[StylePushedAt(tokens, p)].hyperlink
                           = Cardinality(LinkTagsBefore(tokens, p))
            /\ \A h \in RunLinks(self) \ {NoLink} :
                   h \in 0..(Len(self.laidout_hyperlinks) - 1)

\* The text of two hyperlinks is laid out anew at the narrow width with the
\* focus on the second hyperlink, over a layout at the wide width.
C16_Witness ==
    /\ self.laidout # <<>>
    /\ hist.last = "relayout"
    /\ self.width = 2
    /\ env.focus_argument = 1
    /\ self.text = Str_two_links
    /\ {0, 1} \subseteq RunLinks(self)

\* The laidout_* fields of the Text are those of a pass over its tokens at
\* its width, in its style, with the focus as it is.
Coherent(t, e) ==
    t.laidout # <<>> =>
        LET o == LayoutPass(Concat(t.tokens), t.width, t.style,
                            e.focus_argument, t.activated)
        IN  /\ o.error = "none"
            /\ t.laidout = o.laidout
            /\ t.laidout_styles = o.machine.styles
            /\ t.laidout_lineheights = o.laidout_lineheights
            /\ t.laidout_linewidths = o.laidout_linewidths
            /\ t.laidout_length = o.laidout_length
            /\ t.laidout_start = o.laidout_start
            /\ t.laidout_width = o.laidout_width
            /\ t.laidout_height = o.laidout_height
            /\ t.laidout_hyperlinks = o.laidout_hyperlinks
            /\ t.laidout_lines_last = o.laidout_lines_last

\* update, set_text, set_style, focus, unfocus and the activation of the
\* focused hyperlink.
Invalidating ==
    \/ Update
    \/ \E t \in FocusTexts : SetText(t)
    \/ \E y \in Styles : SetStyle(y)
    \/ \E k \in 0..(MaxLinks - 1) : Focus(k)
    \/ Unfocus
    \/ (\E ev \in Events : Event(ev)) /\ hist'.last = "activate"

\* C17: a layout call at the width of the cached layout changes no field
\* of the Text; update, set_text, set_style, focus, unfocus and the
\* activation of a hyperlink leave no cached layout; and a layout the Text
\* holds afterwards is the one a pass computes from its tokens, style,
\* width and the focus of the moment, so the next call has recomputed it.
C17_CacheReusedAndInvalidated ==
    [][/\ \A w \in Widths :
              (Layout(w) /\ self.laidout # <<>> /\ self.width = w) => self' = self
       /\ Invalidating => self'.laidout = <<>>
       /\ \A w \in Widths :
              (Layout(w) /\ self.laidout = <<>> /\ self'.tokens # <<>>)
                  => (self'.laidout # <<>> /\ self'.width = w)
       /\ Coherent(self', env')]_vars

\* With the focus on a hyperlink, a layout call has found the layout made
\* after the focus came cached at its width.
C17_Witness ==
    /\ hist.last = "reused"
    /\ env.focus_argument = 0
    /\ self.laidout # <<>>
    /\ self.width = 6

\* ------------------------------------------------------------------------
\* SpecColor: color(s) for every string of at most MaxDigits hex digits,
\* in lower or upper case, with and without a leading "#".
\* ------------------------------------------------------------------------
MaxDigits == 9

ColorDigits == {"0", "8", "f"}

\* The letters of a string in upper case.
UpperCase(d) == [k \in 1..Len(d) |-> IF d[k] = "f" THEN "F" ELSE d[k]]

ColorInputs(d) ==
    {[digits |-> c, s |-> h \o c] : c \in {d, UpperCase(d)}, h \in {<<>>, <<"#">>}}

ColorInit ==
    /\ \E d \in SeqsUpTo(ColorDigits, MaxDigits) : arg \in ColorInputs(d)
    /\ res = [done |-> FALSE]
    /\ self = NoText /\ env = NoEnv /\ hist = NoHist

ColorStep ==
    /\ ~res.done
    /\ res' = [done |-> TRUE, val |-> color(arg.s)]
    /\ UNCHANGED <<self, env, hist, arg>>

SpecColor == ColorInit /\ [][ColorStep]_vars

\* The value of a hex digit of the inputs.
DigitValue(c) ==
    IF c = "0" THEN 0 ELSE IF c = "8" THEN 8 ELSE 15

PairValue(d, k) == 16 * DigitValue(d[2 * k - 1]) + DigitValue(d[2 * k])

\* C18: for a string of hex digits with or without a leading "#", color
\* returns (r, g, b, a): the values of the two-digit pairs for 6 or 8
\* digits, 17 times the single digits for 3 or 4 digits, a being 255 when
\* there are no alpha digits; for any other number of digits it fails.
C18_ColorOfHexDigits ==
    res.done =>
        LET d == arg.digits
            n == Len(d)
        IN  /\ n = 6 => res.val = <<PairValue(d, 1), PairValue(d, 2),
                                     PairValue(d, 3), 255>>
            /\ n = 8 => res.val = <<PairValue(d, 1), PairValue(d, 2),
                                     PairValue(d, 3), PairValue(d, 4)>>
            /\ n = 3 => res.val = <<17 * DigitValue(d[1]), 17 * DigitValue(d[2]),
                                     17 * DigitValue(d[3]), 255>>
            /\ n = 4 => res.val = <<17 * DigitValue(d[1]), 17 * DigitValue(d[2]),
                                     17 * DigitValue(d[3]), 17 * DigitValue(d[4])>>
            /\ n \notin {3, 4, 6, 8} => res.val \in {ColorError, ColorIndexError}

\* color("08f0") has returned (0, 136, 255, 0).
C18_Witness ==
    /\ res.done
    /\ arg.s = <<"0", "8", "f", "0">>
    /\ res.val = <<0, 136, 255, 0>>

\* ------------------------------------------------------------------------
\* SpecUpdate: Text.update, run by the constructor once the styles are
\* built, on every text of at most MaxPieces words and pause, fast and nw
\* tags, without a pause index and with the index 0 or 1.
\* ------------------------------------------------------------------------
UpdatePieces ==
    {WordPiece, Piece("self", <<"w">>, <<>>), Piece("self", <<"w">>, <<"2">>),
     Piece("self", <<"p">>, <<>>), Piece("self", <<"p">>, <<"1">>),
     Piece("self", <<"f", "a", "s", "t">>, <<>>), Piece("self", <<"n", "w">>, <<>>)}

UpdateInputs(q) ==
    {[text |-> Chars(q), pause |-> k, slow |-> w] :
        k \in {None, 0, 1}, w \in {"True", "False"}}

UpdateInit ==
    /\ \E q \in SeqsUpTo(UpdatePieces, MaxPieces) : arg \in UpdateInputs(q)
    /\ res = [done |-> FALSE]
    /\ self = NoText /\ env = NoEnv /\ hist = NoHist

UpdateStep ==
    /\ ~res.done
    /\ res' = [done |-> TRUE,
               t |-> Construct(arg.text, arg.slow, TRUE, 0, arg.pause,
                               WidgetStyleProps, TRUE)]
    /\ UNCHANGED <<self, env, hist, arg>>

SpecUpdate == UpdateInit /\ [][UpdateStep]_vars

\* The tokens without the nw tags.
WithoutNoWait(tokens) ==
    SelectSeq(tokens, LAMBDA tok : ~IsTag(tok, <<"n", "w">>))

\* The tokens kept when the tokens are cut at the pause tag at the place at.
CutAfter(tokens, at) ==
    LET pause == RewriteP(<<tokens[at]>>)
    IN  WithoutNoWait(RewriteP(SubSeq(tokens, 1, at - 1))) \o <<pause[1]>>

\* C27 as claimed: whenever the pause index is given and there is a pause
\* of that index after the last fast tag, the tokens are cut right after
\* its tag.
C27_CutAtIndexedPause ==
    res.done =>
        LET tokens == TokensOf(arg.text)
            at == IF arg.pause = None THEN 0
                  ELSE PauseTagAt(tokens, LastFast(tokens) + 1, arg.pause)
        IN  /\ res.t.pauses = Len(res.t.pause_lengths)
            /\ res.t.pause_lengths = PauseLengthsOf(tokens)
            /\ at # 0 => res.t.tokens = <<CutAfter(tokens, at)>>

\* C27: pauses and pause_lengths list the pause tags after the last fast
\* tag; with a pause index k the tokens are cut right after the k-th pause
\* tag after the last fast tag, unless an nw tag after the last fast tag
\* comes before it, in which case they are cut before that nw tag.
C27_CutAtIndexedPauseOrNoWait ==
    res.done =>
        LET tokens == TokensOf(arg.text)
            at == IF arg.pause = None THEN 0
                  ELSE PauseTagAt(tokens, LastFast(tokens) + 1, arg.pause)
            nw == FirstNoWait(tokens)
        IN  /\ res.t.pauses = Len(res.t.pause_lengths)
            /\ res.t.pause_lengths = PauseLengthsOf(tokens)
            /\ (at # 0 /\ (nw = 0 \/ at < nw))
                   => res.t.tokens = <<CutAfter(tokens, at)>>
            /\ (arg.pause # None /\ nw # 0 /\ (at = 0 \/ nw < at))
                   => res.t.tokens
                          = <<WithoutNoWait(RewriteP(SubSeq(tokens, 1, nw - 1)))>>

\* With the pause index 1 the text was cut at the second pause tag after a
\* fast tag that has a pause tag before it.
C27_Witness ==
    /\ res.done
    /\ arg.pause = 1
    /\ LastFast(TokensOf(arg.text)) >= 2
    /\ \E k \in 1..LastFast(TokensOf(arg.text)) : IsPauseTag(TokensOf(arg.text)[k])
    /\ res.t.pauses = 2
    /\ res.t.keep_pausing

\* C28: without a pause index the tokens kept are those of the text with
\* every p tag written as w and a newline and every p=S as w=S and a
\* newline; each counts as one pause of the length of that w tag; and
\* tokens cut at such a pause end with the w tag, without the newline,
\* pause_length being the length of that pause.
C28_ParagraphPauseRewritten ==
    res.done =>
        LET tokens == TokensOf(arg.text)
            at == CutPause(arg.text, arg.pause)
            kept == res.t.tokens[1]
        IN  /\ arg.pause = None => res.t.tokens = <<RewriteP(tokens)>>
            /\ \A k \in 1..Len(kept) :
                   ~(kept[k].kind = "tag" /\ kept[k].text[1] = "p")
            /\ res.t.pauses = Len(PauseLengthsOf(tokens))
            /\ res.t.pause_lengths = PauseLengthsOf(tokens)
            /\ (at # 0 /\ tokens[at].text[1] = "p") =>
                   /\ kept[Len(kept)]
                          = Token("tag", <<"w">> \o Tail(tokens[at].text))
                   /\ res.t.pause_length = PauseLengthOf(tokens[at])

\* The text was cut at a p=1 tag.
C28_Witness ==
    /\ res.done
    /\ CutPause(arg.text, arg.pause) # 0
    /\ TokensOf(arg.text)[CutPause(arg.text, arg.pause)] = Token("tag", <<"p", "=", "1">>)
    /\ res.t.pause_length = 1

\* ------------------------------------------------------------------------
\* SpecAccept: check_text_tags and the tag loop of Text.layout applied to
\* the same tagged string.  The strings nest at most MaxNest tags around the
\* word x; every name of text_tags occurs bare, and with an argument where
\* Text.update or Text.layout reads one.
\* ------------------------------------------------------------------------
MaxNest == 2

\* The argument each tag is given: a target, a font name, hex digits, a
\* number, an image name, a style name.
TagArgs ==
    (<<"a">> :> <<"t">>) @@ (<<"f", "o", "n", "t">> :> <<"d">>)
        @@ (<<"c", "o", "l", "o", "r">> :> <<"f", "0", "0">>)
        @@ (<<"s", "i", "z", "e">> :> <<"2">>)
        @@ (<<"i", "m", "a", "g", "e">> :> <<"t">>)
        @@ (<<"w">> :> <<"2">>) @@ (<<"p">> :> <<"1">>) @@ (<<>> :> <<"s">>)

\* A tag is written as an open tag when text_tags says it requires a
\* closing tag.
TagForms ==
    LET kind(n) == IF text_tags[n] THEN "open" ELSE "self"
    IN  {Piece(kind(n), n, <<>>) : n \in DOMAIN text_tags \ {<<>>}}
            \cup {Piece(kind(n), n, TagArgs[n]) : n \in DOMAIN TagArgs}

\* The tags of q around the word x, the first outermost, each tag that
\* requires a closing tag closed: by {/name}, and {/=s} for a style tag.
RECURSIVE Nested(_)
Nested(q) ==
    IF q = <<>> THEN <<WordPiece>>
    ELSE <<Head(q)>> \o Nested(Tail(q))
             \o (IF Head(q).k = "open"
                 THEN <<Piece("close", Head(q).name,
                              IF Head(q).name = <<>> THEN Head(q).a ELSE <<>>)>>
                 ELSE <<>>)

AcceptInit ==
    /\ \E q \in SeqsUpTo(TagForms, MaxNest) :
           arg = [base |-> q, s |-> Chars(Nested(q))]
    /\ res = [done |-> FALSE]
    /\ self = NoText /\ env = NoEnv /\ hist = NoHist

\* The validator on the string, and the tag loop of Text.layout on the
\* tokens Text.update keeps for it.
AcceptStep ==
    /\ ~res.done
    /\ res' = [done |-> TRUE,
               diag |-> check_text_tags(arg.s),
               machine |-> TagMachine(
                   Concat(Construct(arg.s, "False", TRUE, 0, None,
                                    WidgetStyleProps, TRUE).tokens),
                   WidgetStyleProps, NoFocus, FALSE)]
    /\ UNCHANGED <<self, env, hist, arg>>

SpecAccept == AcceptInit /\ [][AcceptStep]_vars

\* C29: a string check_text_tags accepts goes through the tag loop of
\* Text.layout without an error.
C29_AcceptedIsLaidOut ==
    (res.done /\ res.diag = NoDiag) => res.machine.error = "none"

\* ------------------------------------------------------------------------
\* SpecWidth: one TextStyle and its width cache, under at most MaxCalls
\* calls of get_width.  res holds the dictionary wcache, the text and the
\* result of the last call, and for every text how often get_width was
\* called with it (gets) and how often the font backend measured it
\* (font_calls).
\* ------------------------------------------------------------------------
MaxCalls == 4

WidthTexts == {<<>>, <<"x">>, <<"y">>, <<"x", "x">>}

\* A key of the dictionary: a Python int or a Python string; an int never
\* equals a string.
CacheKey(kind, n, s) == [kind |-> kind, n |-> n, s |-> s]

\* TextStyle.get_width on the dictionary d: the result, the dictionary
\* after the call and whether f.size was called.
TextStyle_get_width(style, d, text) ==
    IF CacheKey("str", 0, text) \in DOMAIN d
    THEN [rv |-> d[CacheKey("str", 0, text)], wcache |-> d, measured |-> FALSE]
    ELSE LET rv == FontWidth(style, text)
         IN  [rv |-> rv,
              wcache |-> (CacheKey("int", rv, <<>>) :> text) @@ d,
              measured |-> TRUE]

WidthInit ==
    /\ \E n \in {1, 2} : arg = [size |-> n]
    /\ res = [wcache |-> <<>>, text |-> <<>>, rv |-> None,
              gets |-> [t \in WidthTexts |-> 0],
              font_calls |-> [t \in WidthTexts |-> 0]]
    /\ self = NoText /\ env = NoEnv /\ hist = NoHist

GetWidthStep ==
    \E text \in WidthTexts :
        LET total == res.gets[<<>>] + res.gets[<<"x">>] + res.gets[<<"y">>]
                         + res.gets[<<"x", "x">>]
            r == TextStyle_get_width(arg, res.wcache, text)
        IN  /\ total < MaxCalls
            /\ res' = [wcache |-> r.wcache, text |-> text, rv |-> r.rv,
                       gets |-> [res.gets EXCEPT ![text] = @ + 1],
                       font_calls |-> [res.font_calls EXCEPT ![text] =
                                          IF r.measured THEN @ + 1 ELSE @]]
            /\ UNCHANGED <<self, env, hist, arg>>

SpecWidth == WidthInit /\ [][GetWidthStep]_vars

\* C30: a text get_width was called with is a key of the width cache, the
\* font backend measured it once, and the last call returned its width.
C30_MeasuredTextIsCached ==
    /\ \A t \in WidthTexts :
           res.gets[t] >= 1 =>
               /\ CacheKey("str", 0, t) \in DOMAIN res.wcache
               /\ res.font_calls[t] = 1
    /\ res.rv # None => res.rv = FontWidth(arg, res.text)

====
